---- MODULE Spec2Model ----
(***************************************************************************)
(* Verification model of the content-navigation core of moodle-tui:        *)
(*   - CoursePage.tsx   buildCourseTreeRows (the tree flattener)            *)
(*   - Dashboard.tsx    the course-page navigation state (selection,       *)
(*                      scroll, collapse set, pending init / pending jump) *)
(*                                                                         *)
(* Strings that the code inspects character by character (module type      *)
(* tags, HTML fragments) are sequences of one-character strings; an HTML   *)
(* character reference is one element ("&amp;").  A value that is          *)
(* undefined in the code is the empty sequence: every place the flattener  *)
(* reads such a value treats undefined and "" alike (`value || ""`,        *)
(* `!value`, `a || b`).                                                    *)
(***************************************************************************)
EXTENDS Integers, Sequences, FiniteSets, TLC

VARIABLES
    \* ---- flattener harness (FlattenSpec) ----
    fSections,      \* sections handed to buildCourseTreeRows
    fCollapsed,     \* collapsed-id set handed to buildCourseTreeRows
    fRows,          \* buildCourseTreeRows(fSections, fCollapsed)
    fAllRows,       \* buildCourseTreeRows(fSections, [])
    fDefaultIds,    \* buildDefaultCollapsedNodeIds(fSections)
    fPrevSections   \* the snapshot flattened before the last reordering

flatVars == <<fSections, fCollapsed, fRows, fAllRows, fDefaultIds, fPrevSections>>

VARIABLES
    \* ---- Dashboard.tsx state (Spec) ----
    courses,                        \* ids of the courses of the `courses` state
    viewMode,                       \* "dashboard" | "course"
    courseFinderOpen,
    courseContentFinderOpen,
    assignmentModalOpen,
    activeCourseId,                 \* NoCourse for null
    courseSectionsById,             \* course id -> NotLoaded or Loaded(sections)
    coursePageLoading,
    coursePageError,
    courseScrollOffset,
    courseSelectedIndex,
    collapsedCourseNodeIds,         \* the array of collapsed row ids
    pendingCourseTreeInitCourseId,  \* NoCourse for null
    pendingCourseJumpRowId,         \* NoRowId for null
    courseRows,                     \* memo: the rows of the last render
    allCourseRows,                  \* memo: the same with nothing collapsed
    \* ---- environment ----
    stdoutRows,                     \* stdout.rows
    fetchesInFlight,                \* course id -> fetchCourseContents calls awaiting
    queuedUpdates,                  \* completions whose state updates await the render
    \* ---- history of the last step ----
    lastJumpRowId,                  \* row id committed by the last step, if it was a jump
    selectionClamped,               \* the clamp effect lowered the selection in the last step
    plainOpen                       \* only course opens, moves and successful completions
                                    \* since the active course was opened

VARIABLES
    \* ---- fuzzyScore harness (FuzzySpec) ----
    fzQuery,        \* queryRaw, a sequence of characters
    fzCandidate,    \* candidateRaw, a sequence of characters
    fzScore,        \* fuzzyScore(fzQuery, fzCandidate)
    fzMatches       \* the matches of the walk: position and whether +6 was added

fuzzyVars == <<fzQuery, fzCandidate, fzScore, fzMatches>>

VARIABLES
    \* ---- the state of the finder overlays (FinderSpec) ----
    courseFinder,   \* draft, selectedIdx, scrollOffset and the searchResults memo
                    \* of CourseFinderOverlay
    contentFinder   \* the same and targetIndex of CourseContentFinderOverlay

finderVars == <<courseFinder, contentFinder>>

VARIABLES
    \* ---- ranking harness (RankSpec) ----
    rkQuery,        \* queryRaw, a sequence of characters
    rkCourses,      \* the course list handed to filterCoursesByFuzzyQuery (ids)
    rkRows,         \* the row list handed to filterCourseContentByFuzzyQuery
    rkCourseResult, \* filterCoursesByFuzzyQuery(rkCourses, rkQuery)
    rkRowResult     \* filterCourseContentByFuzzyQuery(rkRows, rkQuery)

rankVars == <<rkQuery, rkCourses, rkRows, rkCourseResult, rkRowResult>>

VARIABLES
    \* ---- input capture (CaptureSpec) ----
    captureCount,   \* InputCaptureProvider's captureCount as last rendered
    countUpdates,   \* the setCaptureCount updaters queued for the next render
    handles,        \* per acquire call: the `released` flag of the closure it
                    \* returned, who holds the closure, how often it was called
    consumers,      \* per useInputCapture call site: mounted, active, releaseRef
    blocked         \* MainShell's globalShortcutsBlocked

captureVars == <<captureCount, countUpdates, handles, consumers, blocked>>

VARIABLES
    \* ---- the shell and the overlays at keystroke level (ShellSpec) ----
    shell,          \* MainShell: settingsOpen, and whether exit() and
                    \* onLogout() were called
    screen,         \* Dashboard: viewMode, courseFinderOpen,
                    \* courseContentFinderOpen, assignmentModalOpen
    lastKey         \* the key of the last keystroke

shellVars == <<shell, screen, lastKey>>

VARIABLES
    \* ---- loadDashboard (LoadSpec) ----
    board,          \* Dashboard: mounted, loading, error, dataSource, courses,
                    \* upcomingAssignments
    courseCache,    \* what getCachedCourses() returns
    loads           \* the loadDashboard calls awaiting a response

loadVars == <<board, courseCache, loads>>

VARIABLES
    \* ---- the assignment modal and its requests (ModalSpec) ----
    modal,               \* Dashboard: assignmentModalOpen, assignmentModalContext,
                         \* the detail and status loading flags and error texts
    assignmentCaches,    \* assignmentListByCourseId of the shown course,
                         \* assignmentDetailByAssignmentId and
                         \* assignmentStatusByAssignmentId
    requestIdRef,        \* assignmentModalRequestIdRef.current
    modalRequests        \* the openSelectedAssignmentModal calls at an await

modalVars == <<modal, assignmentCaches, requestIdRef, modalRequests>>

appVars == <<shellVars, loadVars, modalVars>>

navVars ==
    <<courses, viewMode, courseFinderOpen, courseContentFinderOpen, assignmentModalOpen,
      activeCourseId, courseSectionsById, coursePageLoading, coursePageError, courseScrollOffset,
      courseSelectedIndex, collapsedCourseNodeIds, pendingCourseTreeInitCourseId,
      pendingCourseJumpRowId, courseRows, allCourseRows, stdoutRows, fetchesInFlight,
      queuedUpdates, lastJumpRowId, selectionClamped, plainOpen>>

-----------------------------------------------------------------------------
(* Small arithmetic and sequence helpers                                   *)

Min(a, b) == IF a < b THEN a ELSE b

Max(a, b) == IF a > b THEN a ELSE b

Range(s) == {s[i] : i \in DOMAIN s}

RECURSIVE SumOver(_, _)
SumOver(f, S) ==
    IF S = {} THEN 0
    ELSE LET x == CHOOSE y \in S : TRUE IN f[x] + SumOver(f, S \ {x})

-----------------------------------------------------------------------------
(* Text: String.prototype.trim / toLowerCase and the HTML sanitizer        *)

WhitespaceChars == {" ", "\t", "\n"}

UpperChars ==
    <<"A", "B", "C", "D", "E", "F", "G", "H", "I", "J", "K", "L", "M",
      "N", "O", "P", "Q", "R", "S", "T", "U", "V", "W", "X", "Y", "Z">>

LowerChars ==
    <<"a", "b", "c", "d", "e", "f", "g", "h", "i", "j", "k", "l", "m",
      "n", "o", "p", "q", "r", "s", "t", "u", "v", "w", "x", "y", "z">>

LowerOfUpper ==
    [c \in Range(UpperChars) |->
        LowerChars[CHOOSE i \in DOMAIN UpperChars : UpperChars[i] = c]]

ToLowerChar(c) == IF c \in DOMAIN LowerOfUpper THEN LowerOfUpper[c] ELSE c

\* The Greek sigmas: toLowerCase maps the capital one by its context.
CapitalSigma == "Σ"

SmallSigma == "σ"

FinalSigma == "ς"

\* Unicode's cased letters and case-ignorable characters, as far as the
\* characters of this model go.
IsCased(c) ==
    \/ c \in Range(UpperChars) \/ c \in Range(LowerChars)
    \/ c \in {CapitalSigma, SmallSigma, FinalSigma}

CaseIgnorableChars == {".", "'", ":"}

\* A cased letter, then case-ignorable characters only, end at index i.
RECURSIVE AfterCasedLetter(_, _)
AfterCasedLetter(s, i) ==
    IF i < 1 THEN FALSE
    ELSE IF s[i] \in CaseIgnorableChars THEN AfterCasedLetter(s, i - 1)
    ELSE IsCased(s[i])

\* Case-ignorable characters only, then a cased letter, start at index i.
RECURSIVE BeforeCasedLetter(_, _)
BeforeCasedLetter(s, i) ==
    IF i > Len(s) THEN FALSE
    ELSE IF s[i] \in CaseIgnorableChars THEN BeforeCasedLetter(s, i + 1)
    ELSE IsCased(s[i])

\* The Final_Sigma condition of Unicode's SpecialCasing at index i.
IsFinalSigma(s, i) == AfterCasedLetter(s, i - 1) /\ ~BeforeCasedLetter(s, i + 1)

\* String.prototype.toLowerCase: character by character, but for the capital
\* sigma, which becomes the final sigma at the end of a word.
ToLowerCase(s) ==
    [i \in DOMAIN s |->
        IF s[i] # CapitalSigma THEN ToLowerChar(s[i])
        ELSE IF IsFinalSigma(s, i) THEN FinalSigma ELSE SmallSigma]

RECURSIVE TrimStart(_)
TrimStart(s) ==
    IF s = <<>> THEN <<>>
    ELSE IF Head(s) \in WhitespaceChars THEN TrimStart(Tail(s))
    ELSE s

RECURSIVE TrimEnd(_)
TrimEnd(s) ==
    IF s = <<>> THEN <<>>
    ELSE IF s[Len(s)] \in WhitespaceChars THEN TrimEnd(SubSeq(s, 1, Len(s) - 1))
    ELSE s

Trim(s) == TrimEnd(TrimStart(s))

\* One character reference, as the replace callback of decodeHtmlEntities
\* resolves it: the six named entities (name lower-cased first), decimal and
\* hexadecimal code points, and the reference itself when it is unknown or
\* its code point is not positive.
DecodeEntity(tok) ==
    CASE tok \in {"&amp;", "&AMP;"} -> "&"
      [] tok \in {"&lt;", "&LT;"} -> "<"
      [] tok \in {"&gt;", "&GT;"} -> ">"
      [] tok = "&quot;" -> "\""
      [] tok = "&apos;" -> "'"
      [] tok = "&nbsp;" -> " "
      [] tok \in {"&#67;", "&#x43;", "&#X43;"} -> "C"
      [] OTHER -> tok

DecodeHtmlEntities(value) == [i \in DOMAIN value |-> DecodeEntity(value[i])]

\* value.replace(/<[^>]*>/g, " ")
RECURSIVE StripTags(_)
StripTags(s) ==
    IF s = <<>> THEN <<>>
    ELSE IF Head(s) = "<" /\ \E j \in 2..Len(s) : s[j] = ">"
    THEN LET close == CHOOSE j \in 2..Len(s) :
                          s[j] = ">" /\ \A k \in 2..(j - 1) : s[k] # ">"
         IN  <<" ">> \o StripTags(SubSeq(s, close + 1, Len(s)))
    ELSE <<Head(s)>> \o StripTags(Tail(s))

\* value.replace(/\s+/g, " ")
RECURSIVE CollapseWhitespace(_)
CollapseWhitespace(s) ==
    IF s = <<>> THEN <<>>
    ELSE IF Head(s) \in WhitespaceChars
    THEN <<" ">> \o CollapseWhitespace(TrimStart(Tail(s)))
    ELSE <<Head(s)>> \o CollapseWhitespace(Tail(s))

StripHtml(value) ==
    IF value = <<>> THEN <<>>
    ELSE Trim(CollapseWhitespace(StripTags(DecodeHtmlEntities(value))))

-----------------------------------------------------------------------------
(* fuzzySearch.ts.  Scores are counted in hundredths: 1 point is 100.       *)

IsBoundaryChar(char) == char \in {" ", "-", "_", "/", "."}

\* The body of fuzzyScore's for loop at a candidate index `idx` (0-based)
\* whose character is the awaited one.  `w` holds queryIdx, previousMatchIdx
\* and score; w.matches records, for each matched character, its index and
\* whether the +6 was added for it.
FuzzyMatch(candidate, idx, w) ==
    [queryIdx |-> w.queryIdx + 1,
     previousMatchIdx |-> idx,
     score |-> w.score + 100
               + (IF w.previousMatchIdx = idx - 1 THEN 600 ELSE 0)
               + (IF idx = 0 \/ IsBoundaryChar(candidate[idx]) THEN 400 ELSE 0)
               + (IF idx < 6 THEN (6 - idx) * 25 ELSE 0),
     matches |-> Append(w.matches,
                        [idx |-> idx, contiguous |-> w.previousMatchIdx = idx - 1])]

\* The candidate indexes from `idx` on that hold the character.
MatchingIndexes(candidate, idx, char) ==
    {i \in idx..(Len(candidate) - 1) : candidate[i + 1] = char}

\* The for loop of fuzzyScore from candidate index `idx` on.  The iterations
\* over characters other than the awaited one change nothing (`continue`);
\* the loop is taken from one matching index to the next.
RECURSIVE FuzzyLoop(_, _, _, _)
RECURSIVE FuzzyLoopOver(_, _, _, _)
FuzzyLoop(query, candidate, idx, w) ==
    IF ~(idx < Len(candidate) /\ w.queryIdx < Len(query)) THEN w
    ELSE FuzzyLoopOver(query, candidate,
                       MatchingIndexes(candidate, idx, query[w.queryIdx + 1]), w)

FuzzyLoopOver(query, candidate, matching, w) ==
    IF matching = {} THEN w
    ELSE FuzzyLoop(query, candidate,
                   (CHOOSE i \in matching : \A j \in matching : i <= j) + 1,
                   FuzzyMatch(candidate,
                              CHOOSE i \in matching : \A j \in matching : i <= j, w))

FuzzyWalk(queryRaw, candidateRaw) ==
    FuzzyLoop(ToLowerCase(queryRaw), ToLowerCase(candidateRaw), 0,
              [queryIdx |-> 0, previousMatchIdx |-> -1, score |-> 0, matches |-> <<>>])

\* null
NoMatch == [matched |-> FALSE, score |-> 0]

FuzzyScoreOfPartialMatch(queryRaw, candidateRaw) ==
    LET query == ToLowerCase(queryRaw)
        candidate == ToLowerCase(candidateRaw)
        w == FuzzyWalk(queryRaw, candidateRaw)
    IN  IF query = <<>> THEN [matched |-> TRUE, score |-> 0]
        ELSE IF candidate = <<>> THEN NoMatch
        ELSE IF w.queryIdx = 0 THEN NoMatch
        ELSE [matched |-> TRUE, score |-> w.score - Len(candidate)]

\* fuzzyScore: [matched |-> TRUE, score |-> n] for the number n/100.
FuzzyScore(queryRaw, candidateRaw) ==
    LET query == ToLowerCase(queryRaw)
        candidate == ToLowerCase(candidateRaw)
        w == FuzzyWalk(queryRaw, candidateRaw)
    IN  IF query = <<>> THEN [matched |-> TRUE, score |-> 0]
        ELSE IF candidate = <<>> THEN NoMatch
        ELSE IF w.queryIdx # Len(query) THEN NoMatch
        ELSE [matched |-> TRUE, score |-> w.score - Len(candidate)]

\* The inputs of the fuzzyScore harness: characters in both cases, a boundary
\* character and a letter whose lower case depends on what follows it,
\* queries and candidates of bounded length.
FuzzyChars == {"a", "A", ".", CapitalSigma, FinalSigma}

MaxQueryLen == 2

MaxCandidateLen == 4

FuzzyInit ==
    /\ fzQuery = <<>>
    /\ fzCandidate = <<>>
    /\ fzScore = FuzzyScore(<<>>, <<>>)
    /\ fzMatches = FuzzyWalk(<<>>, <<>>).matches

\* The state a finder overlay is mounted with; searchResults is the memo of
\* its last render, empty before the first one.
CourseFinderMount ==
    [draft |-> <<>>, selectedIdx |-> 0, scrollOffset |-> 0, searchResults |-> <<>>]

ContentFinderMount ==
    [draft |-> <<>>, selectedIdx |-> 0, scrollOffset |-> 0, targetIndex |-> 0,
     searchResults |-> <<>>]

\* No overlay is mounted at the start.
\* The call sites of useInputCapture.
Consumers == {"Dashboard", "Courses"}

\* releaseRef.current === null
NoHandle == 0

\* The provider is mounted with the count 0 and its effect has reported
\* "not blocked"; no consumer is mounted yet.
CaptureInit ==
    /\ captureCount = 0
    /\ countUpdates = <<>>
    /\ handles = <<>>
    /\ consumers = [k \in Consumers |->
                       [mounted |-> FALSE, active |-> FALSE, releaseRef |-> NoHandle]]
    /\ blocked = FALSE

\* "none": no key was pressed yet.
NoKey == "none"

\* MainShell.tsx 33-36 and Dashboard.tsx 160-164, 176: nothing is open and
\* the view mode is the dashboard.
ShellInit ==
    /\ shell = [settingsOpen |-> FALSE, exitCalled |-> FALSE, logoutCalled |-> FALSE]
    /\ screen = [viewMode |-> "dashboard",
                 courseFinderOpen |-> FALSE,
                 courseContentFinderOpen |-> FALSE,
                 assignmentModalOpen |-> FALSE]
    /\ lastKey = NoKey

\* getCachedCourses() === null: no cache file, an expired or unreadable one.
NoCache == [present |-> FALSE, courses |-> <<>>]

Cached(list) == [present |-> TRUE, courses |-> list]

\* The error text "".
NoErrorText == <<>>

\* Dashboard.tsx 159-164 before the mount effect has run.
LoadInit ==
    /\ board = [mounted |-> FALSE,
                loading |-> TRUE,
                error |-> NoErrorText,
                dataSource |-> "none",
                courses |-> <<>>,
                upcomingAssignments |-> <<>>]
    /\ courseCache = NoCache
    /\ loads = <<>>

\* assignmentModalContext === null, and a context without assignmentId.
NoContext == [present |-> FALSE, moduleId |-> 0, assignmentId |-> 0]

NoAssignment == 0

\* Dashboard.tsx 176-199: the modal is closed, nothing is cached and the
\* request id is 0.
ModalInit ==
    /\ modal = [open |-> FALSE,
                context |-> NoContext,
                detailLoading |-> FALSE,
                statusLoading |-> FALSE,
                detailError |-> NoErrorText,
                statusError |-> NoErrorText]
    /\ assignmentCaches = [list |-> NoCache, detail |-> {}, status |-> {}]
    /\ requestIdRef = 0
    /\ modalRequests = <<>>

RankInit ==
    /\ rkQuery = <<>>
    /\ rkCourses = <<>>
    /\ rkRows = <<>>
    /\ rkCourseResult = <<>>
    /\ rkRowResult = <<>>

FinderInit ==
    /\ courseFinder = CourseFinderMount
    /\ contentFinder = ContentFinderMount

-----------------------------------------------------------------------------
(* Module type tags and icons                                              *)

TypeForum == <<"f", "o", "r", "u", "m">>
TypeQuiz == <<"q", "u", "i", "z">>
TypeResource == <<"r", "e", "s", "o", "u", "r", "c", "e">>
TypeAssign == <<"a", "s", "s", "i", "g", "n">>
TypeUrl == <<"u", "r", "l">>
TypePage == <<"p", "a", "g", "e">>
TypeBook == <<"b", "o", "o", "k">>
TypeFolder == <<"f", "o", "l", "d", "e", "r">>
TypeLabel == <<"l", "a", "b", "e", "l">>

ModuleTypeIcons ==
    (TypeForum :> "icon:forum") @@ (TypeQuiz :> "icon:quiz") @@
    (TypeResource :> "icon:resource") @@ (TypeAssign :> "icon:assign") @@
    (TypeUrl :> "icon:url") @@ (TypePage :> "icon:page") @@
    (TypeBook :> "icon:book") @@ (TypeFolder :> "icon:folder") @@
    (TypeLabel :> "icon:label")

NormalizeType(value) == ToLowerCase(Trim(value))

ResolveModuleIcon(modname) ==
    IF NormalizeType(modname) \in DOMAIN ModuleTypeIcons
    THEN ModuleTypeIcons[NormalizeType(modname)]
    ELSE "icon:package"

ResolveContentIcon(contentType) ==
    IF NormalizeType(contentType) = TypeFolder THEN "icon:folder"
    ELSE IF NormalizeType(contentType) = TypeUrl THEN "icon:url"
    ELSE "icon:document"

-----------------------------------------------------------------------------
(* Rows and row ids                                                        *)

\* parentId of a row that has none (the property is absent in the code).
NoParent == ""

\* section.section when the section carries no ordinal (undefined).
NoOrdinal == -1

Row(id, kind, depth, text, icon, collapsible, expanded, parentId) ==
    [id |-> id, kind |-> kind, depth |-> depth, text |-> text, icon |-> icon,
     collapsible |-> collapsible, expanded |-> expanded, parentId |-> parentId]

CourseSectionNodeId(sectionId) == "section:" \o ToString(sectionId)

CourseModuleNodeId(sectionId, moduleId) ==
    "module:" \o ToString(sectionId) \o ":" \o ToString(moduleId)

LabelNodeId(sectionId, moduleId) ==
    "label:" \o ToString(sectionId) \o ":" \o ToString(moduleId)

ContentNodeIdWithoutIndex(sectionId, moduleId, contentIndex) ==
    "content:" \o ToString(sectionId) \o ":" \o ToString(moduleId)

ContentNodeId(sectionId, moduleId, contentIndex) ==
    "content:" \o ToString(sectionId) \o ":" \o ToString(moduleId)
        \o ":" \o ToString(contentIndex)

EmptyRow ==
    Row("empty", "summary", 0, <<"No visible course content returned by Moodle.">>,
        "icon:bullet", FALSE, FALSE, NoParent)

ToCollapsedSet(collapsedIds) == Range(collapsedIds)

-----------------------------------------------------------------------------
(* buildCourseTreeRows                                                     *)

SectionRowIdByIndex(section, sectionIndex) == CourseSectionNodeId(sectionIndex)

\* const sectionId = courseSectionNodeId(section.id); sectionIndex is the
\* 0-based forEach index, which the id does not use.
SectionRowId(section, sectionIndex) == CourseSectionNodeId(section.id)

SectionName(section, sectionIndex) ==
    IF Trim(section.name) # <<>> THEN Trim(section.name)
    ELSE <<"Section ",
           ToString(IF section.section # NoOrdinal THEN section.section
                    ELSE sectionIndex + 1)>>

ContentItemText(content) ==
    LET itemLabel == IF content.filename # <<>> THEN content.filename
                     ELSE IF content.type # <<>> THEN content.type
                     ELSE <<"content item">>
        itemUrl == IF content.fileurl # <<>> THEN content.fileurl ELSE content.url
    IN  IF itemUrl # <<>> THEN itemLabel \o <<": ">> \o itemUrl ELSE itemLabel

RECURSIVE ContentItemRowsSwappedParent(_, _, _, _)
ContentItemRowsSwappedParent(section, module, moduleId, contentIndex) ==
    IF contentIndex >= Len(module.contents) THEN <<>>
    ELSE <<Row(ContentNodeId(section.id, module.id, contentIndex), "content-item", 2,
               ContentItemText(module.contents[contentIndex + 1]),
               ResolveContentIcon(module.contents[contentIndex + 1].type),
               FALSE, FALSE, CourseModuleNodeId(module.id, section.id))>>
         \o ContentItemRowsSwappedParent(section, module, moduleId, contentIndex + 1)

\* module.contents.forEach((content, contentIndex) => rows.push(...)),
\* from 0-based contentIndex on.
RECURSIVE ContentItemRows(_, _, _, _)
ContentItemRows(section, module, moduleId, contentIndex) ==
    IF contentIndex >= Len(module.contents) THEN <<>>
    ELSE <<Row(ContentNodeId(section.id, module.id, contentIndex), "content-item", 2,
               ContentItemText(module.contents[contentIndex + 1]),
               ResolveContentIcon(module.contents[contentIndex + 1].type),
               FALSE, FALSE, moduleId)>>
         \o ContentItemRows(section, module, moduleId, contentIndex + 1)

LabelText(module) ==
    IF StripHtml(module.description) # <<>> THEN StripHtml(module.description)
    ELSE IF StripHtml(module.name) # <<>> THEN StripHtml(module.name)
    ELSE <<"(Empty label)">>

LabelRowCollapsible(section, module, sectionId) ==
    Row(LabelNodeId(section.id, module.id), "label", 1, LabelText(module),
        "icon:label", TRUE, TRUE, sectionId)

LabelRow(section, module, sectionId) ==
    Row(LabelNodeId(section.id, module.id), "label", 1, LabelText(module),
        "icon:label", FALSE, FALSE, sectionId)

\* The rows under an expanded activity: description, link, content items.
ModuleChildRows(section, module, moduleId) ==
    (IF StripHtml(module.description) # <<>>
     THEN <<Row("module-description:" \o ToString(section.id) \o ":"
                    \o ToString(module.id),
                "module-description", 2, StripHtml(module.description),
                "icon:bullet", FALSE, FALSE, moduleId)>>
     ELSE <<>>)
    \o (IF module.url # <<>>
        THEN <<Row("module-url:" \o ToString(section.id) \o ":" \o ToString(module.id),
                   "module-url", 2, module.url, "icon:url", FALSE, FALSE, moduleId)>>
        ELSE <<>>)
    \o ContentItemRows(section, module, moduleId, 0)

ModuleRowsIgnoringCollapse(section, module, sectionId, collapsedSet) ==
    IF NormalizeType(module.modname) = TypeLabel
    THEN <<LabelRow(section, module, sectionId)>>
    ELSE LET moduleId == CourseModuleNodeId(section.id, module.id)
         IN  <<Row(moduleId, "module", 1, module.name,
                   ResolveModuleIcon(module.modname), TRUE,
                   ~(moduleId \in collapsedSet), sectionId)>>
             \o ModuleChildRows(section, module, moduleId)

\* The body of section.modules.forEach for one module.
ModuleRows(section, module, sectionId, collapsedSet) ==
    IF NormalizeType(module.modname) = TypeLabel
    THEN <<LabelRow(section, module, sectionId)>>
    ELSE LET moduleId == CourseModuleNodeId(section.id, module.id)
             moduleCollapsed == moduleId \in collapsedSet
         IN  <<Row(moduleId, "module", 1, module.name,
                   ResolveModuleIcon(module.modname), TRUE, ~moduleCollapsed,
                   sectionId)>>
             \o (IF moduleCollapsed THEN <<>>
                 ELSE ModuleChildRows(section, module, moduleId))

RECURSIVE ModuleListRows(_, _, _, _)
ModuleListRows(section, modules, sectionId, collapsedSet) ==
    IF modules = <<>> THEN <<>>
    ELSE ModuleRows(section, Head(modules), sectionId, collapsedSet)
         \o ModuleListRows(section, Tail(modules), sectionId, collapsedSet)

\* The rows under an expanded section: summary, then the "(no activities)"
\* placeholder or the activities.
SectionChildRows(section, sectionId, collapsedSet) ==
    (IF StripHtml(section.summary) # <<>>
     THEN <<Row("summary:" \o ToString(section.id), "summary", 1,
                StripHtml(section.summary), "icon:note", FALSE, FALSE, sectionId)>>
     ELSE <<>>)
    \o (IF Len(section.modules) = 0
        THEN <<Row("section-empty:" \o ToString(section.id), "summary", 1,
                   <<"(No activities in this section)">>, "icon:bullet",
                   FALSE, FALSE, sectionId)>>
        ELSE ModuleListRows(section, section.modules, sectionId, collapsedSet))

SectionRowsWithoutEarlyReturn(section, sectionIndex, collapsedSet) ==
    LET sectionId == SectionRowId(section, sectionIndex)
    IN  <<Row(sectionId, "section", 0, SectionName(section, sectionIndex),
              "icon:folder", TRUE, ~(sectionId \in collapsedSet), NoParent)>>
        \o SectionChildRows(section, sectionId, collapsedSet)

\* The body of sections.forEach for one section (sectionIndex 0-based).
SectionRows(section, sectionIndex, collapsedSet) ==
    LET sectionId == SectionRowId(section, sectionIndex)
        sectionCollapsed == sectionId \in collapsedSet
    IN  <<Row(sectionId, "section", 0, SectionName(section, sectionIndex),
              "icon:folder", TRUE, ~sectionCollapsed, NoParent)>>
        \o (IF sectionCollapsed THEN <<>>
            ELSE SectionChildRows(section, sectionId, collapsedSet))

RECURSIVE SectionListRows(_, _, _)
SectionListRows(sections, sectionIndex, collapsedSet) ==
    IF sectionIndex >= Len(sections) THEN <<>>
    ELSE SectionRows(sections[sectionIndex + 1], sectionIndex, collapsedSet)
         \o SectionListRows(sections, sectionIndex + 1, collapsedSet)

BuildCourseTreeRowsPlaceholderWhenCollapsed(sections, collapsedSet) ==
    IF Len(sections) = 0 THEN <<EmptyRow>>
    ELSE IF collapsedSet # {} THEN <<EmptyRow>> \o SectionListRows(sections, 0, collapsedSet)
    ELSE SectionListRows(sections, 0, collapsedSet)

BuildCourseTreeRows(sections, collapsedSet) ==
    IF Len(sections) = 0 THEN <<EmptyRow>>
    ELSE SectionListRows(sections, 0, collapsedSet)

-----------------------------------------------------------------------------
(* buildDefaultCollapsedNodeIds (Dashboard.tsx)                            *)

RECURSIVE DefaultModuleIdsRawType(_, _)
DefaultModuleIdsRawType(section, modules) ==
    IF modules = <<>> THEN <<>>
    ELSE (IF Head(modules).modname = TypeLabel THEN <<>>
          ELSE <<"module:" \o ToString(section.id) \o ":"
                     \o ToString(Head(modules).id)>>)
         \o DefaultModuleIdsRawType(section, Tail(modules))

\* The inner forEach: one id per module whose type does not normalize to
\* "label".
RECURSIVE DefaultModuleIds(_, _)
DefaultModuleIds(section, modules) ==
    IF modules = <<>> THEN <<>>
    ELSE (IF ToLowerCase(Trim(Head(modules).modname)) = TypeLabel THEN <<>>
          ELSE <<"module:" \o ToString(section.id) \o ":"
                     \o ToString(Head(modules).id)>>)
         \o DefaultModuleIds(section, Tail(modules))

RECURSIVE BuildDefaultCollapsedNodeIds(_)
BuildDefaultCollapsedNodeIds(sections) ==
    IF sections = <<>> THEN <<>>
    ELSE <<CourseSectionNodeId(Head(sections).id)>>
         \o DefaultModuleIds(Head(sections), Head(sections).modules)
         \o BuildDefaultCollapsedNodeIds(Tail(sections))

-----------------------------------------------------------------------------
(* Inputs of the flattener harness                                         *)

\* Largest number of sections plus activities of a generated tree.
MaxTreeNodes == 4

SectionIds == {10, 11}

ModuleIds == {55, 56}

HtmlIntro == <<"<", "p", ">", "Intro", " ", "&amp;", " ", "more", "<", "/", "p", ">">>

HtmlBlank == <<"<", "p", ">", " ", "&nbsp;", "<", "/", "p", ">">>

\* The sections a generated tree may hold under each id (without modules):
\* 10 is named and has a summary, or has a blank name, no ordinal and a summary
\* that strips to nothing; 11 has no name, ordinal 0 and no summary.
SectionShapes(id) ==
    IF id = 10
    THEN { [name |-> <<"Week", " ", "1">>, section |-> 1, summary |-> HtmlIntro],
           [name |-> <<" ">>, section |-> NoOrdinal, summary |-> HtmlBlank] }
    ELSE { [name |-> <<>>, section |-> 0, summary |-> <<>>] }

ContentFile ==
    [type |-> <<"f", "i", "l", "e">>, filename |-> <<"guide.pdf">>,
     fileurl |-> <<"https://moodle.school.tld/pluginfile.php/guide.pdf">>, url |-> <<>>]

ContentLink ==
    [type |-> <<"U", "R", "L">>, filename |-> <<>>, fileurl |-> <<>>,
     url |-> <<"https://example.org/">>]

ContentBare == [type |-> <<>>, filename |-> <<>>, fileurl |-> <<>>, url |-> <<>>]

\* The activities a generated tree may hold under each id: 55 is a full forum
\* or a bare assignment; 56 is a label carrying a description, a URL and a
\* content item, a label with only a marked-up name, or an untyped activity
\* whose description strips to nothing.
ModuleShapes(id) ==
    IF id = 55
    THEN { [name |-> <<"Forum discussion">>, modname |-> TypeForum,
            description |-> <<"<", "p", ">", "Say", " ", "hello", "<", "/", "p", ">">>,
            url |-> <<"https://moodle.school.tld/mod/forum/view.php">>,
            contents |-> <<ContentFile, ContentLink>>],
           [name |-> <<"Essay">>, modname |-> TypeAssign, description |-> <<>>,
            url |-> <<>>, contents |-> <<>>] }
    ELSE { [name |-> <<"Banner">>, modname |-> <<" ", "L", "a", "b", "e", "l", " ">>,
            description |-> <<"<", "h", "3", ">", "Read", " ", "first", "<", "/", "h", "3", ">">>,
            url |-> <<"https://moodle.school.tld/mod/label/view.php">>,
            contents |-> <<ContentFile>>],
           [name |-> <<"<", "b", ">", "Note", "<", "/", "b", ">">>, modname |-> TypeLabel,
            description |-> <<>>, url |-> <<>>, contents |-> <<>>],
           [name |-> <<"Misc">>, modname |-> <<>>, description |-> HtmlBlank,
            url |-> <<>>, contents |-> <<ContentBare>>] }

MakeSection(id, shape) ==
    [id |-> id, name |-> shape.name, section |-> shape.section,
     summary |-> shape.summary, modules |-> <<>>]

MakeModule(id, shape) ==
    [id |-> id, name |-> shape.name, modname |-> shape.modname,
     description |-> shape.description, url |-> shape.url,
     contents |-> shape.contents]

RECURSIVE ModuleCount(_)
ModuleCount(sections) ==
    IF sections = <<>> THEN 0
    ELSE Len(Head(sections).modules) + ModuleCount(Tail(sections))

TreeNodes(sections) == Len(sections) + ModuleCount(sections)

SwapAt(s, i) == [s EXCEPT ![i] = s[i + 1], ![i + 1] = s[i]]

-----------------------------------------------------------------------------
(* Dashboard.tsx: the state after construction                             *)

\* activeCourseId / pendingCourseTreeInitCourseId === null
NoCourse == 0

\* pendingCourseJumpRowId === null (the code tests it with `!`, so "" and
\* null are alike)
NoRowId == ""

NoError == ""

CourseIds == {1, 2}

\* courseSectionsById[courseId]: undefined, or the sections of a completed
\* fetch (an empty array is a truthy, loaded value).
NotLoaded == [present |-> FALSE, sections |-> <<>>]

Loaded(sections) == [present |-> TRUE, sections |-> sections]

\* stdout.rows of the terminals considered.
StdoutRowsChoices == {20}

NavInit ==
    /\ courses = <<>>
    /\ viewMode = "dashboard"
    /\ courseFinderOpen = FALSE
    /\ courseContentFinderOpen = FALSE
    /\ assignmentModalOpen = FALSE
    /\ activeCourseId = NoCourse
    /\ courseSectionsById = [c \in CourseIds |-> NotLoaded]
    /\ coursePageLoading = FALSE
    /\ coursePageError = NoError
    /\ courseScrollOffset = 0
    /\ courseSelectedIndex = 0
    /\ collapsedCourseNodeIds = <<>>
    /\ pendingCourseTreeInitCourseId = NoCourse
    /\ pendingCourseJumpRowId = NoRowId
    /\ courseRows = BuildCourseTreeRows(<<>>, ToCollapsedSet(<<>>))
    /\ allCourseRows = BuildCourseTreeRows(<<>>, ToCollapsedSet(<<>>))
    /\ stdoutRows \in StdoutRowsChoices
    /\ fetchesInFlight = [c \in CourseIds |-> 0]
    /\ queuedUpdates = <<>>
    /\ lastJumpRowId = NoRowId
    /\ selectionClamped = FALSE
    /\ plainOpen = TRUE

\* Every derived value of the harness is recomputed by every step.
FlatSet(sections, collapsed, prev) ==
    /\ fSections' = sections
    /\ fCollapsed' = collapsed
    /\ fRows' = BuildCourseTreeRows(sections, collapsed)
    /\ fAllRows' = BuildCourseTreeRows(sections, ToCollapsedSet(<<>>))
    /\ fDefaultIds' = BuildDefaultCollapsedNodeIds(sections)
    /\ fPrevSections' = prev
    /\ UNCHANGED <<navVars, fuzzyVars, finderVars, rankVars, captureVars, appVars>>

FlatInit ==
    /\ fSections = <<>>
    /\ fCollapsed = {}
    /\ fRows = BuildCourseTreeRows(<<>>, {})
    /\ fAllRows = BuildCourseTreeRows(<<>>, ToCollapsedSet(<<>>))
    /\ fDefaultIds = BuildDefaultCollapsedNodeIds(<<>>)
    /\ fPrevSections = <<>>
    /\ NavInit
    /\ stdoutRows = 20
    /\ FuzzyInit
    /\ FinderInit
    /\ RankInit
    /\ CaptureInit
    /\ ShellInit
    /\ LoadInit
    /\ ModalInit

FAppendSection ==
    \E id \in SectionIds : \E shape \in SectionShapes(id) :
        /\ TreeNodes(fSections) < MaxTreeNodes
        /\ \A i \in DOMAIN fSections : fSections[i].id # id
        /\ FlatSet(Append(fSections, MakeSection(id, shape)), fCollapsed,
                   Append(fSections, MakeSection(id, shape)))

FAppendModule ==
    \E si \in DOMAIN fSections, id \in ModuleIds : \E shape \in ModuleShapes(id) :
        /\ TreeNodes(fSections) < MaxTreeNodes
        /\ \A i \in DOMAIN fSections[si].modules : fSections[si].modules[i].id # id
        /\ FlatSet([fSections EXCEPT ![si].modules = Append(@, MakeModule(id, shape))],
                   fCollapsed,
                   [fSections EXCEPT ![si].modules = Append(@, MakeModule(id, shape))])

\* Any id of a section, activity or label row may be put into or taken out of
\* the collapsed set.
FToggle ==
    \E i \in DOMAIN fAllRows :
        /\ fAllRows[i].kind \in {"section", "module", "label"}
        /\ FlatSet(fSections,
                   IF fAllRows[i].id \in fCollapsed
                   THEN fCollapsed \ {fAllRows[i].id}
                   ELSE fCollapsed \cup {fAllRows[i].id},
                   fSections)

FApplyDefault ==
    /\ fCollapsed # ToCollapsedSet(fDefaultIds)
    /\ FlatSet(fSections, ToCollapsedSet(fDefaultIds), fSections)

\* A later snapshot holding the same entities in another order; the snapshot
\* before the reordering is kept for comparison.  Row ids do not depend on
\* the collapsed set, so snapshots are reordered with nothing collapsed.
FSwapSections ==
    \E i \in 1..(Len(fSections) - 1) :
        /\ fCollapsed = {}
        /\ FlatSet(SwapAt(fSections, i), fCollapsed, fSections)

FSwapModules ==
    \E si \in DOMAIN fSections :
        \E i \in 1..(Len(fSections[si].modules) - 1) :
            /\ fCollapsed = {}
            /\ FlatSet([fSections EXCEPT ![si].modules = SwapAt(@, i)], fCollapsed,
                       fSections)

FSwapContents ==
    \E si \in DOMAIN fSections :
        \E mi \in DOMAIN fSections[si].modules :
            \E i \in 1..(Len(fSections[si].modules[mi].contents) - 1) :
                /\ fCollapsed = {}
                /\ FlatSet([fSections EXCEPT ![si].modules[mi].contents = SwapAt(@, i)],
                           fCollapsed, fSections)

FlatNext ==
    \/ FAppendSection
    \/ FAppendModule
    \/ FToggle
    \/ FApplyDefault
    \/ FSwapSections
    \/ FSwapModules
    \/ FSwapContents

vars == <<flatVars, navVars, fuzzyVars, finderVars, rankVars, captureVars, appVars>>

FlattenSpec == FlatInit /\ [][FlatNext]_vars

-----------------------------------------------------------------------------
(* The fuzzyScore harness: a query and a candidate grow by one character   *)
(* at a time and fuzzyScore is applied to each pair.                       *)

FuzzySet(query, candidate) ==
    /\ fzQuery' = query
    /\ fzCandidate' = candidate
    /\ fzScore' = FuzzyScore(query, candidate)
    /\ fzMatches' = FuzzyWalk(query, candidate).matches
    /\ UNCHANGED <<flatVars, navVars, finderVars, rankVars, captureVars, appVars>>

FuzzyTypeQuery ==
    \E char \in FuzzyChars :
        /\ Len(fzQuery) < MaxQueryLen
        /\ FuzzySet(Append(fzQuery, char), fzCandidate)

FuzzyTypeCandidate ==
    \E char \in FuzzyChars :
        /\ Len(fzCandidate) < MaxCandidateLen
        /\ FuzzySet(fzQuery, Append(fzCandidate, char))

FuzzyNext == FuzzyTypeQuery \/ FuzzyTypeCandidate

FuzzySpec == FlatInit /\ [][FuzzyNext]_vars

-----------------------------------------------------------------------------
(* The Moodle server: what fetchCourses and fetchCourseContents deliver    *)

AllCourses == <<1, 2>>

\* Largest number of fetchCourseContents calls whose response or whose state
\* updates are awaited.
MaxInFlight == 2

\* Largest number of completions whose updates await the same render.
MaxQueued == 1

ForumWithFiles ==
    [id |-> 55, name |-> <<"Forum discussion">>, modname |-> TypeForum,
     description |-> <<"Say hello">>,
     url |-> <<"https://moodle.school.tld/mod/forum/view.php">>,
     contents |-> <<ContentFile, ContentLink, ContentBare, ContentFile>>]

BannerLabel ==
    [id |-> 56, name |-> <<"Banner">>, modname |-> TypeLabel,
     description |-> <<"Read first">>, url |-> <<>>, contents |-> <<>>]

EssayAssignment ==
    [id |-> 55, name |-> <<"Essay">>, modname |-> TypeAssign, description |-> <<>>,
     url |-> <<>>, contents |-> <<>>]

WeekOne(modules) ==
    [id |-> 10, name |-> <<"Week 1">>, section |-> 1, summary |-> <<"Intro">>,
     modules |-> modules]

\* The section lists the server may answer a content request with.  Course 1
\* is a ten-row tree that may later shrink to three rows; course 2 is one
\* section holding an assignment.
ServerContents(courseId) ==
    IF courseId = 1
    THEN { <<WeekOne(<<ForumWithFiles, BannerLabel>>)>>,
           <<WeekOne(<<BannerLabel>>)>> }
    ELSE { <<[id |-> 20, name |-> <<"Exam">>, section |-> NoOrdinal,
              summary |-> <<>>, modules |-> <<EssayAssignment>>]>> }

-----------------------------------------------------------------------------
(* Dashboard.tsx: what a render derives from the state                     *)

\* The values of one render as a record: the state and the two memoized
\* row sequences.  `selectionClamped` is reset at every step.
State ==
    [courses |-> courses, viewMode |-> viewMode,
     courseFinderOpen |-> courseFinderOpen,
     courseContentFinderOpen |-> courseContentFinderOpen,
     assignmentModalOpen |-> assignmentModalOpen,
     activeCourseId |-> activeCourseId,
     courseSectionsById |-> courseSectionsById,
     coursePageLoading |-> coursePageLoading,
     coursePageError |-> coursePageError,
     courseScrollOffset |-> courseScrollOffset,
     courseSelectedIndex |-> courseSelectedIndex,
     collapsedCourseNodeIds |-> collapsedCourseNodeIds,
     pendingCourseTreeInitCourseId |-> pendingCourseTreeInitCourseId,
     pendingCourseJumpRowId |-> pendingCourseJumpRowId,
     courseRows |-> courseRows,
     allCourseRows |-> allCourseRows,
     selectionClamped |-> FALSE]

\* The top inset MainShell gives the dashboard.
TopInset == 2

\* courses.find((course) => course.id === activeCourseId) ?? null
ActiveCourse(s) ==
    IF s.activeCourseId = NoCourse THEN NoCourse
    ELSE IF s.activeCourseId \in Range(s.courses) THEN s.activeCourseId
    ELSE NoCourse

ActiveSections(s) ==
    IF ActiveCourse(s) # NoCourse /\ s.courseSectionsById[ActiveCourse(s)].present
    THEN s.courseSectionsById[ActiveCourse(s)].sections
    ELSE <<>>

\* The render of state `s` after the render `prev`: the memoized courseRows
\* and allCourseRows (lines 357-364) are recomputed when their inputs differ
\* from those of `prev`.
RenderDashboard(prev, s) ==
    [s EXCEPT !.courseRows =
                  IF /\ ActiveSections(s) = ActiveSections(prev)
                     /\ s.collapsedCourseNodeIds = prev.collapsedCourseNodeIds
                  THEN prev.courseRows
                  ELSE BuildCourseTreeRows(ActiveSections(s),
                                           ToCollapsedSet(s.collapsedCourseNodeIds)),
              !.allCourseRows =
                  IF ActiveSections(s) = ActiveSections(prev)
                  THEN prev.allCourseRows
                  ELSE BuildCourseTreeRows(ActiveSections(s), ToCollapsedSet(<<>>))]

TermHeight == Max(18, stdoutRows - TopInset)

BodyHeight == Max(8, TermHeight - 7)

PageJump == Max(4, BodyHeight \div 3)

ContentRows == Max(4, BodyHeight - 2)

MaxCourseScrollOffset(rowCount) == Max(0, rowCount - ContentRows)

MaxCourseRowIndex(rowCount) == Max(rowCount - 1, 0)

\* rows.findIndex((row) => row.id === id): 0-based, -1 when there is none.
FindRowIndex(rows, id) ==
    IF \E i \in DOMAIN rows : rows[i].id = id
    THEN (CHOOSE i \in DOMAIN rows :
              rows[i].id = id /\ \A j \in 1..(i - 1) : rows[j].id # id) - 1
    ELSE -1

-----------------------------------------------------------------------------
(* Dashboard.tsx: the effects that follow a render                         *)
(*                                                                         *)
(* An effect reads the values of the render it belongs to (`c`) and queues *)
(* state updates; the updates of one pass are applied in the order the     *)
(* effects are declared, each functional updater to the value the earlier  *)
(* updates left (`a`).                                                     *)

\* closeAssignmentModal (lines 203-210): of its updates the model keeps the
\* open flag.
CloseAssignmentModal(a) == [a EXCEPT !.assignmentModalOpen = FALSE]

\* Effect at lines 324-328.
ViewModeEffect(c, a) ==
    IF c.viewMode = "course" THEN a ELSE CloseAssignmentModal(a)

PendingCourseTreeInitEffectWithoutMarker(c, a) ==
    IF c.viewMode # "course" THEN a
    ELSE IF c.activeCourseId = NoCourse THEN a
    ELSE IF Len(ActiveSections(c)) = 0 /\ c.coursePageLoading THEN a
    ELSE IF c.collapsedCourseNodeIds = BuildDefaultCollapsedNodeIds(ActiveSections(c)) THEN a
    ELSE [a EXCEPT !.collapsedCourseNodeIds =
                       BuildDefaultCollapsedNodeIds(ActiveSections(c)),
                   !.courseSelectedIndex = 0,
                   !.courseScrollOffset = 0,
                   !.pendingCourseTreeInitCourseId = NoCourse]

\* Effect at lines 335-351.  Its dependency list changes whenever its guard
\* can change outcome, so the guard alone decides whether it acts.
PendingCourseTreeInitEffect(c, a) ==
    IF c.viewMode # "course" THEN a
    ELSE IF c.activeCourseId = NoCourse THEN a
    ELSE IF c.pendingCourseTreeInitCourseId # c.activeCourseId THEN a
    ELSE IF Len(ActiveSections(c)) = 0 /\ c.coursePageLoading THEN a
    ELSE [a EXCEPT !.collapsedCourseNodeIds =
                       BuildDefaultCollapsedNodeIds(ActiveSections(c)),
                   !.courseSelectedIndex = 0,
                   !.courseScrollOffset = 0,
                   !.pendingCourseTreeInitCourseId = NoCourse]

PendingCourseJumpEffectKeepingSelection(c, a) ==
    IF c.pendingCourseJumpRowId = NoRowId THEN a
    ELSE IF FindRowIndex(c.courseRows, c.pendingCourseJumpRowId) = -1 THEN a
    ELSE [a EXCEPT !.pendingCourseJumpRowId = NoRowId]

\* Effect at lines 366-373.
PendingCourseJumpEffect(c, a) ==
    IF c.pendingCourseJumpRowId = NoRowId THEN a
    ELSE IF FindRowIndex(c.courseRows, c.pendingCourseJumpRowId) = -1 THEN a
    ELSE [a EXCEPT !.courseSelectedIndex =
                       FindRowIndex(c.courseRows, c.pendingCourseJumpRowId),
                   !.pendingCourseJumpRowId = NoRowId]

ClampSelectionEffectNever(c, prevRowCount, a) == a

\* Effect at lines 395-397; it runs when maxCourseRowIndex differs from the
\* previous render's.
ClampSelectionEffect(c, prevRowCount, a) ==
    IF MaxCourseRowIndex(Len(c.courseRows)) = MaxCourseRowIndex(prevRowCount) THEN a
    ELSE [a EXCEPT !.courseSelectedIndex =
                       Min(@, MaxCourseRowIndex(Len(c.courseRows))),
                   !.selectionClamped =
                       @ \/ a.courseSelectedIndex > MaxCourseRowIndex(Len(c.courseRows))]

ReconcileCourseScrollOffsetKeepPrevious(previous, rowCount, selectedIndex) ==
    Min(previous, MaxCourseScrollOffset(rowCount))

\* The updater of setCourseScrollOffset at lines 400-416.
ReconcileCourseScrollOffset(previous, rowCount, selectedIndex) ==
    LET clampedPrevious == Min(previous, MaxCourseScrollOffset(rowCount))
    IN  IF rowCount = 0 THEN 0
        ELSE IF selectedIndex < clampedPrevious THEN selectedIndex
        ELSE IF selectedIndex >= clampedPrevious + ContentRows
        THEN Min(Max(0, selectedIndex - ContentRows + 1), MaxCourseScrollOffset(rowCount))
        ELSE clampedPrevious

ScrollEffectSelectionOnTop(c, prevRowCount, prevSelectedIndex, a) ==
    IF Len(c.courseRows) = prevRowCount /\ c.courseSelectedIndex = prevSelectedIndex
    THEN a
    ELSE [a EXCEPT !.courseScrollOffset =
                       Min(c.courseSelectedIndex,
                           MaxCourseScrollOffset(Len(c.courseRows)))]

\* Effect at lines 399-417; it runs when the row count or the selected index
\* differs from the previous render's (contentRows and maxCourseScrollOffset
\* follow from the terminal and the row count).
ScrollEffect(c, prevRowCount, prevSelectedIndex, a) ==
    IF Len(c.courseRows) = prevRowCount /\ c.courseSelectedIndex = prevSelectedIndex
    THEN a
    ELSE [a EXCEPT !.courseScrollOffset =
                       ReconcileCourseScrollOffset(@, Len(c.courseRows),
                                                   c.courseSelectedIndex)]

\* The effects after the render `c`, in declaration order.
EffectsPass(c, prevRowCount, prevSelectedIndex) ==
    ScrollEffect(c, prevRowCount, prevSelectedIndex,
        ClampSelectionEffect(c, prevRowCount,
            PendingCourseJumpEffect(c,
                PendingCourseTreeInitEffect(c, ViewModeEffect(c, c)))))

\* Effects and renders until a pass of effects changes nothing.
RECURSIVE Settle(_, _, _)
Settle(c, prevRowCount, prevSelectedIndex) ==
    LET n == EffectsPass(c, prevRowCount, prevSelectedIndex)
    IN  IF n = c THEN c
        ELSE Settle(RenderDashboard(c, n), Len(c.courseRows), c.courseSelectedIndex)

-----------------------------------------------------------------------------
(* Dashboard.tsx: callbacks.  `c` is the render the callback closes over,  *)
(* `a` the state its functional updaters are applied to.                   *)

MoveCourseSelectionUnbounded(c, a, delta) ==
    [a EXCEPT !.courseSelectedIndex = Max(0, @ + delta)]

\* moveCourseSelection (lines 423-430).
MoveCourseSelection(c, a, delta) ==
    [a EXCEPT !.courseSelectedIndex =
                  Max(0, Min(@ + delta, MaxCourseRowIndex(Len(c.courseRows))))]

SetCourseNodeCollapsedDroppingOthers(a, nodeId, collapsed) ==
    LET previous == a.collapsedCourseNodeIds
        alreadyCollapsed == nodeId \in Range(previous)
    IN  [a EXCEPT !.collapsedCourseNodeIds =
            IF collapsed
            THEN (IF alreadyCollapsed THEN previous ELSE Append(previous, nodeId))
            ELSE IF ~alreadyCollapsed THEN previous
            ELSE <<>>]

\* setCourseNodeCollapsed (lines 432-443).
SetCourseNodeCollapsed(a, nodeId, collapsed) ==
    LET previous == a.collapsedCourseNodeIds
        alreadyCollapsed == nodeId \in Range(previous)
        Other(id) == id # nodeId
    IN  [a EXCEPT !.collapsedCourseNodeIds =
            IF collapsed
            THEN (IF alreadyCollapsed THEN previous ELSE Append(previous, nodeId))
            ELSE IF ~alreadyCollapsed THEN previous
            ELSE SelectSeq(previous, Other)]

\* allRowsById.get(id): a Map built from the rows keeps the last row of an id.
RowById(allRows, id) ==
    allRows[CHOOSE i \in DOMAIN allRows :
                allRows[i].id = id /\ \A j \in (i + 1)..Len(allRows) : allRows[j].id # id]

HasRowId(allRows, id) == \E i \in DOMAIN allRows : allRows[i].id = id

RowsToExpandParentOnly(allRows, current) ==
    IF current.parentId = NoParent THEN {}
    ELSE IF ~HasRowId(allRows, current.parentId) THEN {}
    ELSE IF RowById(allRows, current.parentId).collapsible
    THEN {current.parentId}
    ELSE {}

\* The while loop of applyCourseContentSelection: the collapsible rows on the
\* parent chain of `current`.
RECURSIVE RowsToExpand(_, _)
RowsToExpand(allRows, current) ==
    IF current.parentId = NoParent THEN {}
    ELSE IF ~HasRowId(allRows, current.parentId) THEN {}
    ELSE (IF RowById(allRows, current.parentId).collapsible
          THEN {current.parentId} ELSE {})
         \cup RowsToExpand(allRows, RowById(allRows, current.parentId))

ApplyCourseContentSelectionExpandingTarget(c, a, targetRowId) ==
    IF ~HasRowId(c.allCourseRows, targetRowId)
    THEN [a EXCEPT !.courseContentFinderOpen = FALSE]
    ELSE LET rowsToExpand ==
                 RowsToExpand(c.allCourseRows, RowById(c.allCourseRows, targetRowId))
                     \cup {targetRowId}
             Kept(rowId) == rowId \notin rowsToExpand
         IN  [a EXCEPT !.collapsedCourseNodeIds = SelectSeq(@, Kept),
                       !.pendingCourseJumpRowId = targetRowId,
                       !.courseContentFinderOpen = FALSE]

ApplyCourseContentSelection(c, a, targetRowId) ==
    IF ~HasRowId(c.allCourseRows, targetRowId)
    THEN [a EXCEPT !.courseContentFinderOpen = FALSE]
    ELSE LET rowsToExpand ==
                 RowsToExpand(c.allCourseRows, RowById(c.allCourseRows, targetRowId))
             Kept(rowId) == rowId \notin rowsToExpand
         IN  [a EXCEPT !.collapsedCourseNodeIds =
                           IF rowsToExpand # {} THEN SelectSeq(@, Kept) ELSE @,
                       !.pendingCourseJumpRowId = targetRowId,
                       !.courseContentFinderOpen = FALSE]

\* loadCourseContents up to its first await; NeedsFetch tells whether it goes
\* on to fetchCourseContents.
NeedsFetch(c, courseId, forceRefresh) ==
    forceRefresh \/ ~c.courseSectionsById[courseId].present

LoadCourseContents(c, a, courseId, forceRefresh) ==
    IF ~NeedsFetch(c, courseId, forceRefresh)
    THEN [a EXCEPT !.coursePageError = NoError]
    ELSE [a EXCEPT !.coursePageLoading = TRUE, !.coursePageError = NoError]

OpenCourseFromFinderKeepingPosition(c, a, courseId) ==
    LoadCourseContents(c,
        [CloseAssignmentModal(a)
                  EXCEPT !.activeCourseId = courseId,
                  !.viewMode = "course",
                  !.courseFinderOpen = FALSE,
                  !.courseContentFinderOpen = FALSE,
                  !.pendingCourseJumpRowId = NoRowId,
                  !.collapsedCourseNodeIds =
                      BuildDefaultCollapsedNodeIds(
                          IF c.courseSectionsById[courseId].present
                          THEN c.courseSectionsById[courseId].sections
                          ELSE <<>>)],
        courseId, FALSE)

\* openCourseFromFinder up to the await of loadCourseContents.
OpenCourseFromFinder(c, a, courseId) ==
    LoadCourseContents(c,
        [CloseAssignmentModal(a)
                  EXCEPT !.activeCourseId = courseId,
                  !.viewMode = "course",
                  !.courseFinderOpen = FALSE,
                  !.courseContentFinderOpen = FALSE,
                  !.courseScrollOffset = 0,
                  !.courseSelectedIndex = 0,
                  !.pendingCourseJumpRowId = NoRowId,
                  !.collapsedCourseNodeIds =
                      BuildDefaultCollapsedNodeIds(
                          IF c.courseSectionsById[courseId].present
                          THEN c.courseSectionsById[courseId].sections
                          ELSE <<>>),
                  !.pendingCourseTreeInitCourseId = courseId],
        courseId, FALSE)

\* normalizeModname(module.modname)
NormalizeModname(value) == ToLowerCase(Trim(value))

NoModule == [id |-> -1]

\* findCourseModuleForRow: the row id is parsed back into the section and the
\* activity number, which are then looked up in the sections; comparing the
\* id built from a section and an activity with the row id finds the same
\* pair.
FindCourseModuleForRow(sections, row) ==
    LET IsSection(si) == \A sj \in 1..(si - 1) : sections[sj].id # sections[si].id
        IsModule(si, mi) ==
            /\ row.id = CourseModuleNodeId(sections[si].id, sections[si].modules[mi].id)
            /\ \A mj \in 1..(mi - 1) :
                   sections[si].modules[mj].id # sections[si].modules[mi].id
    IN  IF row.kind # "module" THEN NoModule
        ELSE IF \E si \in DOMAIN sections : IsSection(si) /\
                   \E mi \in DOMAIN sections[si].modules : IsModule(si, mi)
        THEN LET si == CHOOSE si \in DOMAIN sections : IsSection(si) /\
                           \E mi \in DOMAIN sections[si].modules : IsModule(si, mi)
                 mi == CHOOSE mi \in DOMAIN sections[si].modules : IsModule(si, mi)
             IN  sections[si].modules[mi]
        ELSE NoModule

IsAssignmentModule(module) ==
    module # NoModule /\ NormalizeModname(module.modname) = TypeAssign

\* openSelectedAssignmentModal up to its first await; of its updates the model
\* keeps the open flag.
OpenSelectedAssignmentModal(c, a) ==
    IF c.activeCourseId = NoCourse \/ ActiveCourse(c) = NoCourse THEN a
    ELSE IF c.courseSelectedIndex >= Len(c.courseRows) THEN a
    ELSE IF ~IsAssignmentModule(
                 FindCourseModuleForRow(ActiveSections(c),
                                        c.courseRows[c.courseSelectedIndex + 1]))
    THEN a
    ELSE [a EXCEPT !.assignmentModalOpen = TRUE]

FirstChildIndexOfLastChild(rows, selectedIndex, selectedRowId) ==
    LET IsChild(i) == i - 1 > selectedIndex /\ rows[i].parentId = selectedRowId
    IN  IF \E i \in DOMAIN rows : IsChild(i)
        THEN (CHOOSE i \in DOMAIN rows :
                  IsChild(i) /\ \A j \in (i + 1)..Len(rows) : ~IsChild(j)) - 1
        ELSE -1

\* courseRows.findIndex((row, index) => index > courseSelectedIndex &&
\*                                      row.parentId === selectedRow.id)
FirstChildIndex(rows, selectedIndex, selectedRowId) ==
    LET IsChild(i) == i - 1 > selectedIndex /\ rows[i].parentId = selectedRowId
    IN  IF \E i \in DOMAIN rows : IsChild(i)
        THEN (CHOOSE i \in DOMAIN rows :
                  IsChild(i) /\ \A j \in 1..(i - 1) : ~IsChild(j)) - 1
        ELSE -1

ExpandSelectedRowWithChildren(c, a) ==
    IF c.courseSelectedIndex >= Len(c.courseRows) THEN a
    ELSE LET selectedRow == c.courseRows[c.courseSelectedIndex + 1]
             firstChildIndex ==
                 FirstChildIndex(c.courseRows, c.courseSelectedIndex, selectedRow.id)
             NoChild(id) ==
                 \A i \in DOMAIN c.allCourseRows :
                     c.allCourseRows[i].id = id =>
                         c.allCourseRows[i].parentId # selectedRow.id
         IN  IF ~selectedRow.collapsible THEN a
             ELSE IF ~selectedRow.expanded
             THEN [SetCourseNodeCollapsed(a, selectedRow.id, FALSE)
                      EXCEPT !.collapsedCourseNodeIds = SelectSeq(@, NoChild)]
             ELSE IF firstChildIndex # -1
             THEN [a EXCEPT !.courseSelectedIndex = firstChildIndex]
             ELSE a

\* The "dashboard-expand" branch of the input handler.
ExpandSelectedRow(c, a) ==
    IF c.courseSelectedIndex >= Len(c.courseRows) THEN a
    ELSE LET selectedRow == c.courseRows[c.courseSelectedIndex + 1]
             firstChildIndex ==
                 FirstChildIndex(c.courseRows, c.courseSelectedIndex, selectedRow.id)
         IN  IF ~selectedRow.collapsible THEN a
             ELSE IF ~selectedRow.expanded
             THEN SetCourseNodeCollapsed(a, selectedRow.id, FALSE)
             ELSE IF firstChildIndex # -1
             THEN [a EXCEPT !.courseSelectedIndex = firstChildIndex]
             ELSE a

CollapseSelectedRowToFirstRow(c, a) ==
    IF c.courseSelectedIndex >= Len(c.courseRows) THEN a
    ELSE LET selectedRow == c.courseRows[c.courseSelectedIndex + 1]
             parentIndex == FindRowIndex(c.courseRows, selectedRow.parentId)
         IN  IF selectedRow.collapsible /\ selectedRow.expanded
             THEN SetCourseNodeCollapsed(a, selectedRow.id, TRUE)
             ELSE IF selectedRow.parentId # NoParent /\ parentIndex # -1
             THEN [a EXCEPT !.courseSelectedIndex = 0]
             ELSE a

\* The "dashboard-collapse" branch of the input handler.
CollapseSelectedRow(c, a) ==
    IF c.courseSelectedIndex >= Len(c.courseRows) THEN a
    ELSE LET selectedRow == c.courseRows[c.courseSelectedIndex + 1]
             parentIndex == FindRowIndex(c.courseRows, selectedRow.parentId)
         IN  IF selectedRow.collapsible /\ selectedRow.expanded
             THEN SetCourseNodeCollapsed(a, selectedRow.id, TRUE)
             ELSE IF selectedRow.parentId # NoParent /\ parentIndex # -1
             THEN [a EXCEPT !.courseSelectedIndex = parentIndex]
             ELSE a

CompletionUpdatesStoringEmptySections(a, completion) ==
    [a EXCEPT !.courseSectionsById[completion.courseId] =
                  IF completion.ok THEN Loaded(completion.sections) ELSE Loaded(<<>>),
              !.coursePageError =
                  IF completion.ok THEN @
                  ELSE "Failed to load course page: request failed",
              !.coursePageLoading = FALSE]

\* The state updates of a completed loadCourseContents call: the try or the
\* catch branch, then the finally branch.
CompletionUpdates(a, completion) ==
    IF completion.ok
    THEN [a EXCEPT !.courseSectionsById[completion.courseId] =
                       Loaded(completion.sections),
                   !.coursePageLoading = FALSE]
    ELSE [a EXCEPT !.coursePageError = "Failed to load course page: request failed",
                   !.coursePageLoading = FALSE]

RECURSIVE ApplyQueuedUpdates(_, _)
ApplyQueuedUpdates(queue, a) ==
    IF queue = <<>> THEN a
    ELSE ApplyQueuedUpdates(Tail(queue), CompletionUpdates(a, Head(queue)))

-----------------------------------------------------------------------------
(* The finder overlays: ranking of courses and of course rows              *)

\* The texts and ids of the course pages abbreviate a run of characters by
\* one token; fuzzyScore and localeCompare read them character by character.
\* One token of a hundred letters x.
LongFiller ==
    "xxxxxxxxxxxxxxxxxxxxxxxxxxxxxxxxxxxxxxxxxxxxxxxxxxxxxxxxxxxxxxxxxxxxxxxxxxxxxxxxxxxxxxxxxxxxxxxxxxxx"

SpelledTokens ==
    "Week 1" :> <<"W", "e", "e", "k", " ", "1">>
    @@ "Intro" :> <<"I", "n", "t", "r", "o">>
    @@ "Read first" :> <<"R", "e", "a", "d", " ", "f", "i", "r", "s", "t">>
    @@ "Forum discussion" :> <<"F", "o", "r", "u", "m", " ", "d", "i", "s", "c", "u", "s", "s",
        "i", "o", "n">>
    @@ "Say hello" :> <<"S", "a", "y", " ", "h", "e", "l", "l", "o">>
    @@ "https://moodle.school.tld/mod/forum/view.php" :> <<"h", "t", "t", "p", "s", ":", "/",
        "/", "m", "o", "o", "d", "l", "e", ".", "s", "c", "h", "o", "o", "l", ".", "t",
        "l", "d", "/", "m", "o", "d", "/", "f", "o", "r", "u", "m", "/", "v", "i", "e",
        "w", ".", "p", "h", "p">>
    @@ "guide.pdf" :> <<"g", "u", "i", "d", "e", ".", "p", "d", "f">>
    @@ ": " :> <<":", " ">>
    @@ "https://moodle.school.tld/pluginfile.php/guide.pdf" :> <<"h", "t", "t", "p", "s", ":",
        "/", "/", "m", "o", "o", "d", "l", "e", ".", "s", "c", "h", "o", "o", "l", ".",
        "t", "l", "d", "/", "p", "l", "u", "g", "i", "n", "f", "i", "l", "e", ".", "p",
        "h", "p", "/", "g", "u", "i", "d", "e", ".", "p", "d", "f">>
    @@ "https://example.org/" :> <<"h", "t", "t", "p", "s", ":", "/", "/", "e", "x", "a", "m",
        "p", "l", "e", ".", "o", "r", "g", "/">>
    @@ "content item" :> <<"c", "o", "n", "t", "e", "n", "t", " ", "i", "t", "e", "m">>
    @@ "Exam" :> <<"E", "x", "a", "m">>
    @@ "Essay" :> <<"E", "s", "s", "a", "y">>
    @@ "section:10" :> <<"s", "e", "c", "t", "i", "o", "n", ":", "1", "0">>
    @@ "summary:10" :> <<"s", "u", "m", "m", "a", "r", "y", ":", "1", "0">>
    @@ "label:10:56" :> <<"l", "a", "b", "e", "l", ":", "1", "0", ":", "5", "6">>
    @@ "module:10:55" :> <<"m", "o", "d", "u", "l", "e", ":", "1", "0", ":", "5", "5">>
    @@ "module-description:10:55" :> <<"m", "o", "d", "u", "l", "e", "-", "d", "e", "s", "c",
        "r", "i", "p", "t", "i", "o", "n", ":", "1", "0", ":", "5", "5">>
    @@ "module-url:10:55" :> <<"m", "o", "d", "u", "l", "e", "-", "u", "r", "l", ":", "1", "0",
        ":", "5", "5">>
    @@ "content:10:55:0" :> <<"c", "o", "n", "t", "e", "n", "t", ":", "1", "0", ":", "5", "5",
        ":", "0">>
    @@ "content:10:55:1" :> <<"c", "o", "n", "t", "e", "n", "t", ":", "1", "0", ":", "5", "5",
        ":", "1">>
    @@ "content:10:55:2" :> <<"c", "o", "n", "t", "e", "n", "t", ":", "1", "0", ":", "5", "5",
        ":", "2">>
    @@ "content:10:55:3" :> <<"c", "o", "n", "t", "e", "n", "t", ":", "1", "0", ":", "5", "5",
        ":", "3">>
    @@ "section:20" :> <<"s", "e", "c", "t", "i", "o", "n", ":", "2", "0">>
    @@ "empty" :> <<"e", "m", "p", "t", "y">>
    @@ LongFiller :> [i \in 1..100 |-> "x"]
    @@ "No visible course content returned by Moodle." :> <<"N", "o", " ", "v", "i", "s",
        "i", "b", "l", "e", " ", "c", "o", "u", "r", "s", "e", " ", "c", "o", "n", "t",
        "e", "n", "t", " ", "r", "e", "t", "u", "r", "n", "e", "d", " ", "b", "y", " ",
        "M", "o", "o", "d", "l", "e", ".">>
    @@ "module:20:55" :> <<"m", "o", "d", "u", "l", "e", ":", "2", "0", ":", "5", "5">>

Spell(token) == IF token \in DOMAIN SpelledTokens THEN SpelledTokens[token] ELSE <<token>>

RECURSIVE Chars(_)
Chars(text) == IF text = <<>> THEN <<>> ELSE Spell(Head(text)) \o Chars(Tail(text))

\* The primary collation order of the characters of the texts: white space,
\* punctuation, digits, letters; upper and lower case are one primary weight
\* (sensitivity "base").
CollationOrder ==
    <<" ", "_", "-", ",", ";", ":", "!", "?", ".", "'", "(", ")", "/",
      "0", "1", "2", "3", "4", "5", "6", "7", "8", "9">> \o LowerChars

CollationRanks ==
    [char \in Range(CollationOrder) |->
        CHOOSE i \in DOMAIN CollationOrder : CollationOrder[i] = char]

CollationRank(char) ==
    IF ToLowerChar(char) \in DOMAIN CollationRanks
    THEN CollationRanks[ToLowerChar(char)]
    ELSE 0

\* The positions at which both texts have a character and the two differ in
\* their primary weight.
DifferingIndexes(left, right) ==
    {i \in 1..Min(Len(left), Len(right)) :
        CollationRank(left[i]) # CollationRank(right[i])}

LocaleCompareAt(left, right, differing) ==
    IF differing = {} THEN Len(left) - Len(right)
    ELSE CollationRank(left[CHOOSE i \in differing : \A j \in differing : i <= j])
         - CollationRank(right[CHOOSE i \in differing : \A j \in differing : i <= j])

\* left.localeCompare(right, undefined, { sensitivity: "base" }): negative,
\* zero or positive; the first differing character decides, then the length.
LocaleCompare(left, right) ==
    LocaleCompareAt(left, right, DifferingIndexes(left, right))

\* The comparator of both sorts on ranked results: higher score first, then
\* the texts in `keys` in turn (a row's text and id, a course's fullname).
\* Scores are products of a fuzzyScore in hundredths and a weight in
\* hundredths.
CompareFirstKey(left, right) ==
    IF left = <<>> THEN 0 ELSE LocaleCompare(Head(left), Head(right))

RECURSIVE CompareKeys(_, _)
CompareKeys(left, right) ==
    IF left = <<>> THEN 0
    ELSE LET byKey == LocaleCompare(Head(left), Head(right))
         IN  IF byKey # 0 THEN byKey ELSE CompareKeys(Tail(left), Tail(right))

CompareRanked(left, right) ==
    IF right.score # left.score THEN right.score - left.score
    ELSE CompareKeys(left.keys, right.keys)

\* Array.prototype.sort with CompareRanked: a stable sort, by insertion
\* behind the entries that do not come after the inserted one.
InsertRanked(sorted, entry, before) ==
    SubSeq(sorted, 1, before) \o <<entry>> \o SubSeq(sorted, before + 1, Len(sorted))

PlaceRanked(sorted, entry) ==
    InsertRanked(sorted, entry,
                 Cardinality({i \in DOMAIN sorted : CompareRanked(sorted[i], entry) <= 0}))

RECURSIVE SortRanked(_)
SortRanked(ranked) ==
    IF ranked = <<>> THEN <<>>
    ELSE PlaceRanked(SortRanked(SubSeq(ranked, 1, Len(ranked) - 1)), ranked[Len(ranked)])

\* .map((result) => result.course) and .map((result) => result.row)
RankedItems(sorted) == [i \in DOMAIN sorted |-> sorted[i].item]

\* The course records fetchCourses delivers: those of AllCourses (1 and 2)
\* and two more of the catalogue, which share a short name and whose full
\* names are ordered differently with and without regard to case.
CourseRecord(courseId) ==
    CASE courseId = 1 ->
           [id |-> 1, shortname |-> <<"M", "1">>, fullname |-> <<"M", "a", "t", "h">>,
            displayname |-> <<"M", "a", "t", "h">>,
            categoryname |-> <<"S", "T", "E", "M">>, summary |-> <<>>]
      [] courseId = 3 ->
           [id |-> 3, shortname |-> <<"E", "o">>, fullname |-> <<"Z", "e", "t", "a">>,
            displayname |-> <<>>, categoryname |-> <<>>, summary |-> <<>>]
      [] courseId = 4 ->
           [id |-> 4, shortname |-> <<"E", "o">>, fullname |-> <<"b", "e", "t", "a">>,
            displayname |-> <<>>, categoryname |-> <<>>, summary |-> <<>>]
      [] OTHER ->
           [id |-> 2, shortname |-> <<"E", "2">>, fullname |-> <<"E", "x", "a", "m">>,
            displayname |-> <<>>, categoryname |-> <<>>,
            summary |-> <<"e", "s", "s", "a", "y">>]

BuildWeightedFieldsWithoutCategory(course) ==
    << [value |-> course.shortname, weight |-> 120],
       [value |-> course.fullname, weight |-> 100],
       [value |-> course.displayname, weight |-> 95],
       [value |-> course.summary, weight |-> 35] >>

BuildWeightedFields(course) ==
    << [value |-> course.shortname, weight |-> 120],
       [value |-> course.fullname, weight |-> 100],
       [value |-> course.displayname, weight |-> 95],
       [value |-> course.categoryname, weight |-> 70],
       [value |-> course.summary, weight |-> 35] >>

NoRank == [matched |-> FALSE]

\* A ranked result: the item with the score times the weight, and the texts
\* that order equal scores; NoRank for a score of null.
Ranked(item, score, weight, keys) ==
    IF ~score.matched THEN NoRank
    ELSE [matched |-> TRUE, item |-> item, score |-> score.score * weight, keys |-> keys]

BestRankedSummed(rankedFields) ==
    IF \A i \in DOMAIN rankedFields : ~rankedFields[i].matched THEN NoRank
    ELSE [rankedFields[CHOOSE i \in DOMAIN rankedFields : rankedFields[i].matched]
             EXCEPT !.score =
                 SumOver([i \in DOMAIN rankedFields |->
                             IF rankedFields[i].matched THEN rankedFields[i].score ELSE 0],
                         DOMAIN rankedFields)]

\* The best of the ranked fields: a later field replaces the best one only
\* with a greater weighted score.
BestRanked(rankedFields) ==
    IF \A i \in DOMAIN rankedFields : ~rankedFields[i].matched THEN NoRank
    ELSE rankedFields[CHOOSE i \in DOMAIN rankedFields :
                         /\ rankedFields[i].matched
                         /\ \A j \in DOMAIN rankedFields :
                                rankedFields[j].matched =>
                                    \/ rankedFields[j].score < rankedFields[i].score
                                    \/ rankedFields[j].score = rankedFields[i].score /\ i <= j]

RankFields(courseId, query, fields) ==
    [i \in DOMAIN fields |->
        Ranked(courseId, FuzzyScore(query, fields[i].value), fields[i].weight,
               <<CourseRecord(courseId).fullname>>)]

\* rankCourse: the best weighted score over the fields that match.
RankCourse(courseId, query) ==
    BestRanked(RankFields(courseId, query, BuildWeightedFields(CourseRecord(courseId))))

RankCourses(courseIds, query) ==
    SelectSeq([i \in DOMAIN courseIds |-> RankCourse(courseIds[i], query)],
              LAMBDA result : result.matched)

FilterCoursesByFuzzyQueryAlwaysRanking(courseIds, queryRaw) ==
    RankedItems(SortRanked(RankCourses(courseIds, Trim(queryRaw))))

FilterCoursesByFuzzyQuery(courseIds, queryRaw) ==
    IF Trim(queryRaw) = <<>> THEN courseIds
    ELSE RankedItems(SortRanked(RankCourses(courseIds, Trim(queryRaw))))

RowKindWeight(kind) ==
    CASE kind = "section" -> 115
      [] kind = "module" -> 110
      [] kind = "label" -> 105
      [] kind = "content-item" -> 100
      [] kind = "module-description" -> 85
      [] kind = "module-url" -> 80
      [] kind = "summary" -> 75
      [] OTHER -> 100

IsSearchableRowAlways(row) == TRUE

IsSearchableRow(row) == row.id # "empty"

RankRow(row, query) ==
    Ranked(row, FuzzyScore(query, Chars(row.text)), RowKindWeight(row.kind),
           <<Chars(row.text), Spell(row.id)>>)

RankRows(searchableRows, query) ==
    SelectSeq([i \in DOMAIN searchableRows |-> RankRow(searchableRows[i], query)],
              LAMBDA result : result.matched)

FilterCourseContentByFuzzyQuery(rows, queryRaw) ==
    IF Trim(queryRaw) = <<>> THEN SelectSeq(rows, IsSearchableRow)
    ELSE RankedItems(SortRanked(RankRows(SelectSeq(rows, IsSearchableRow),
                                         Trim(queryRaw))))

-----------------------------------------------------------------------------
(* CourseFinderOverlay.tsx and CourseContentFinderOverlay.tsx              *)

\* The result lines of the two overlays.
CourseFinderRows == Max(3, Max(12, Min(30, TermHeight - 4)) - 7)

ResultRows == Max(1, Min(Max(1, TermHeight - 2), Max(10, Min(30, TermHeight - 4))) - 7)

ModuleTypeOrder ==
    <<TypeAssign, TypeQuiz, TypeForum, TypeResource, TypePage, TypeBook, TypeFolder,
      TypeUrl>>

KindTargets ==
    << [id |-> "kind:section", mode |-> "row-kind", rowKind |-> "section"],
       [id |-> "kind:label", mode |-> "row-kind", rowKind |-> "label"],
       [id |-> "kind:content-item", mode |-> "row-kind", rowKind |-> "content-item"],
       [id |-> "kind:module-url", mode |-> "row-kind", rowKind |-> "module-url"],
       [id |-> "kind:module-description", mode |-> "row-kind",
        rowKind |-> "module-description"],
       [id |-> "kind:summary", mode |-> "row-kind", rowKind |-> "summary"] >>

AllTarget == [id |-> "all", mode |-> "all"]

\* row.moduleType: buildCourseTreeRows gives its rows no such field, so the
\* overlay reads undefined ("" for normalizeType).
RowModuleType(row) == <<>>

\* The module types of the module rows, in the order of the sort: the known
\* types in MODULE_TYPE_ORDER, then the others by localeCompare.
RECURSIVE SortModuleTypes(_)
SortModuleTypes(moduleTypes) ==
    IF moduleTypes = {} THEN <<>>
    ELSE LET known == {i \in DOMAIN ModuleTypeOrder : ModuleTypeOrder[i] \in moduleTypes}
             first == IF known # {}
                      THEN ModuleTypeOrder[CHOOSE i \in known : \A j \in known : i <= j]
                      ELSE CHOOSE t \in moduleTypes :
                               \A u \in moduleTypes : LocaleCompare(t, u) <= 0
         IN  <<first>> \o SortModuleTypes(moduleTypes \ {first})

BuildCourseContentTargets(rows) ==
    LET moduleTypes == {NormalizeType(RowModuleType(rows[i])) :
                            i \in {j \in DOMAIN rows : rows[j].kind = "module"}} \ {<<>>}
        sorted == SortModuleTypes(moduleTypes)
    IN  <<AllTarget>>
            \o [i \in DOMAIN sorted |->
                   [id |-> <<"module-type:">> \o sorted[i], mode |-> "module-type",
                    moduleType |-> sorted[i]]]
            \o KindTargets

FilterRowsByTarget(rows, target) ==
    IF target.mode = "all" THEN rows
    ELSE IF target.mode = "module-type"
    THEN SelectSeq(rows, LAMBDA row : /\ row.kind = "module"
                                      /\ NormalizeType(RowModuleType(row))
                                           = NormalizeType(target.moduleType))
    ELSE SelectSeq(rows, LAMBDA row : row.kind = target.rowKind)

\* The % of JavaScript: the remainder has the sign of the dividend.
Remainder(a, b) == IF a >= 0 THEN a % b ELSE 0 - ((0 - a) % b)

CycleCourseContentTargetIndex(currentIndex, delta, length) ==
    IF length <= 0 THEN 0
    ELSE Remainder(Remainder(currentIndex + delta, length) + length, length)

\* targets[targetIndex] ?? targets[0] ?? { id: "all", ... }
ActiveTarget(targets, targetIndex) ==
    IF targetIndex + 1 \in DOMAIN targets THEN targets[targetIndex + 1]
    ELSE IF targets # <<>> THEN targets[1]
    ELSE AllTarget

\* searchResults of an overlay in state `f` under the dashboard render `c`.
CourseFinderResults(c, f) == FilterCoursesByFuzzyQuery(c.courses, f.draft)

TargetedRows(c, f) ==
    FilterRowsByTarget(c.allCourseRows,
                       ActiveTarget(BuildCourseContentTargets(c.allCourseRows),
                                    f.targetIndex))

ContentFinderResults(c, f) == FilterCourseContentByFuzzyQuery(TargetedRows(c, f), f.draft)

\* The render of an overlay in state `f`: the searchResults memo is
\* recomputed when `fresh` says that its inputs changed.
CourseFinderRender(c, f, fresh) ==
    IF fresh THEN [f EXCEPT !.searchResults = CourseFinderResults(c, f)] ELSE f

ContentFinderRender(c, f, fresh) ==
    IF fresh THEN [f EXCEPT !.searchResults = ContentFinderResults(c, f)] ELSE f

\* The dependencies an overlay's effects compare with: those of the previous
\* render, or none on mount.
MountDeps == [count |-> -1, selectedIdx |-> -1, scrollOffset |-> -1, targetCount |-> -1]

CourseFinderDeps(c, f) ==
    [count |-> Len(f.searchResults), selectedIdx |-> f.selectedIdx,
     scrollOffset |-> f.scrollOffset, targetCount |-> 0]

ContentFinderDeps(c, f) ==
    [count |-> Len(f.searchResults), selectedIdx |-> f.selectedIdx,
     scrollOffset |-> f.scrollOffset,
     targetCount |-> Len(BuildCourseContentTargets(c.allCourseRows))]

\* The three effects on selectedIdx and scrollOffset, which both overlays
\* declare alike: the two clamps run when the number of results changed,
\* the follow effect when selectedIdx or scrollOffset changed.
FinderSelectionEffects(f, prev, count, rows) ==
    LET clamped == IF count # prev.count
                   THEN [f EXCEPT !.selectedIdx = Min(@, Max(count - 1, 0)),
                                  !.scrollOffset = Min(@, Max(count - rows, 0))]
                   ELSE f
    IN  IF f.selectedIdx = prev.selectedIdx /\ f.scrollOffset = prev.scrollOffset
        THEN clamped
        ELSE IF f.selectedIdx < f.scrollOffset
        THEN [clamped EXCEPT !.scrollOffset = f.selectedIdx]
        ELSE IF f.selectedIdx >= f.scrollOffset + rows
        THEN [clamped EXCEPT !.scrollOffset = f.selectedIdx - rows + 1]
        ELSE clamped

\* The clamp of targetIndex, run when the number of targets changed.
TargetIndexEffect(f, prev, targetCount) ==
    IF targetCount # prev.targetCount
    THEN [f EXCEPT !.targetIndex = Min(@, Max(targetCount - 1, 0))]
    ELSE f

\* The effects of the overlay rendered as `f` and the renders and effects
\* they set off, until they change nothing: `a` is what the effects of one
\* pass leave, `deps` what the next pass compares with.
RECURSIVE CourseFinderSettle(_, _, _)
CourseFinderPass(c, f, deps, a) ==
    IF a = f THEN f ELSE CourseFinderSettle(c, a, deps)

CourseFinderSettle(c, f, prev) ==
    CourseFinderPass(c, f, CourseFinderDeps(c, f),
                     FinderSelectionEffects(f, prev, Len(f.searchResults),
                                            CourseFinderRows))

RECURSIVE ContentFinderSettle(_, _, _)
ContentFinderPass(c, f, deps, a) ==
    IF a = f THEN f
    ELSE ContentFinderSettle(c, ContentFinderRender(c, a, a.targetIndex # f.targetIndex),
                             deps)

ContentFinderEffects(f, prev, deps) ==
    FinderSelectionEffects(TargetIndexEffect(f, prev, deps.targetCount), prev,
                           deps.count, ResultRows)

ContentFinderSettle(c, f, prev) ==
    ContentFinderPass(c, f, ContentFinderDeps(c, f),
                      ContentFinderEffects(f, prev, ContentFinderDeps(c, f)))

\* The handlers of the overlays.  `count` is searchResults.length of the
\* render the handler closes over.
FinderOnChange(f, value) ==
    [f EXCEPT !.draft = value, !.selectedIdx = 0, !.scrollOffset = 0]

FinderMoveSelection(f, delta, count) ==
    [f EXCEPT !.selectedIdx = Max(0, Min(@ + delta, Max(count - 1, 0)))]

FinderHome(f) == [f EXCEPT !.selectedIdx = 0]

FinderEnd(f, count) == [f EXCEPT !.selectedIdx = Max(count - 1, 0)]

CycleTarget(f, delta, targetCount) ==
    [f EXCEPT !.targetIndex = CycleCourseContentTargetIndex(@, delta, targetCount),
              !.selectedIdx = 0, !.scrollOffset = 0]

\* applySelection: the entry of instantResults it commits, 0-based, or -1
\* when there is none and the overlay closes itself.
BoundedIndex(f, instantResults) ==
    IF instantResults = <<>> THEN -1
    ELSE Max(0, Min(f.selectedIdx, Max(Len(instantResults) - 1, 0)))

-----------------------------------------------------------------------------
(* Steps of the dashboard                                                  *)

FetchCount == SumOver(fetchesInFlight, CourseIds) + Len(queuedUpdates)

\* What the callbacks of a step update: the last rendered state with the
\* queued completion updates applied.  The callbacks themselves close over
\* the last render (State): they are replaced by the next render and its
\* effects (useStableInput.ts, lines 13-15), which the queued updates still
\* await.
Base == ApplyQueuedUpdates(queuedUpdates, State)

\* The render that follows the updates `a` of a step, and the effects and
\* renders it sets off, until they change nothing.
After(a) == Settle(RenderDashboard(State, a), Len(courseRows), courseSelectedIndex)

\* The overlays after the dashboard render `n`: an overlay is mounted while
\* the dashboard renders it, keeps its state from render to render, and
\* loses it when it is unmounted.
CourseFinderAfter(n) ==
    IF ~n.courseFinderOpen THEN CourseFinderMount
    ELSE CourseFinderSettle(
             n,
             CourseFinderRender(n,
                                IF courseFinderOpen THEN courseFinder
                                ELSE CourseFinderMount,
                                ~courseFinderOpen \/ n.courses # courses),
             IF courseFinderOpen THEN CourseFinderDeps(State, courseFinder)
             ELSE MountDeps)

ContentFinderMounted(c) == c.viewMode = "course" /\ c.courseContentFinderOpen

ContentFinderAfter(n) ==
    IF ~ContentFinderMounted(n) THEN ContentFinderMount
    ELSE ContentFinderSettle(
             n,
             ContentFinderRender(n,
                                 IF ContentFinderMounted(State) THEN contentFinder
                                 ELSE ContentFinderMount,
                                 \/ ~ContentFinderMounted(State)
                                 \/ n.allCourseRows # allCourseRows),
             IF ContentFinderMounted(State) THEN ContentFinderDeps(State, contentFinder)
             ELSE MountDeps)

\* A step: the settled render of the updates `a` becomes the state.
Rendered(a, inFlight, jumpRowId, plain) ==
    \E n \in {After(a)} :
        /\ courses' = n.courses
        /\ viewMode' = n.viewMode
        /\ courseFinderOpen' = n.courseFinderOpen
        /\ courseContentFinderOpen' = n.courseContentFinderOpen
        /\ assignmentModalOpen' = n.assignmentModalOpen
        /\ activeCourseId' = n.activeCourseId
        /\ courseSectionsById' = n.courseSectionsById
        /\ coursePageLoading' = n.coursePageLoading
        /\ coursePageError' = n.coursePageError
        /\ courseScrollOffset' = n.courseScrollOffset
        /\ courseSelectedIndex' = n.courseSelectedIndex
        /\ collapsedCourseNodeIds' = n.collapsedCourseNodeIds
        /\ pendingCourseTreeInitCourseId' = n.pendingCourseTreeInitCourseId
        /\ pendingCourseJumpRowId' = n.pendingCourseJumpRowId
        /\ courseRows' = n.courseRows
        /\ allCourseRows' = n.allCourseRows
        /\ selectionClamped' = n.selectionClamped
        /\ fetchesInFlight' = inFlight
        /\ queuedUpdates' = <<>>
        /\ lastJumpRowId' = jumpRowId
        /\ plainOpen' = plain
        /\ courseFinder' = CourseFinderAfter(n)
        /\ contentFinder' = ContentFinderAfter(n)
        /\ UNCHANGED <<stdoutRows, flatVars, fuzzyVars, rankVars, captureVars, appVars>>

\* The input handler returns at once while the assignment modal or a finder
\* overlay is open.
InputReachesDashboard ==
    ~assignmentModalOpen /\ ~courseFinderOpen /\ ~courseContentFinderOpen

\* The mount effect's loadDashboard call delivers the course list.
LoadDashboardCompletes ==
    /\ courses = <<>>
    /\ Rendered([Base EXCEPT !.courses = AllCourses], fetchesInFlight, NoRowId, plainOpen)

OpenCourseFinder ==
    /\ InputReachesDashboard
    /\ Rendered([Base EXCEPT !.courseFinderOpen = TRUE], fetchesInFlight, NoRowId,
                plainOpen)

CloseCourseFinder ==
    /\ courseFinderOpen
    /\ Rendered([Base EXCEPT !.courseFinderOpen = FALSE], fetchesInFlight, NoRowId,
                plainOpen)

\* The course finder commits one of the courses it was given.
ApplyCourse ==
    \E courseId \in Range(courses) :
        /\ courseFinderOpen
        /\ NeedsFetch(State, courseId, FALSE) => FetchCount < MaxInFlight
        /\ Rendered(OpenCourseFromFinder(State, Base, courseId),
                    IF NeedsFetch(State, courseId, FALSE)
                    THEN [fetchesInFlight EXCEPT ![courseId] = @ + 1]
                    ELSE fetchesInFlight,
                    NoRowId, TRUE)

OpenCourseContentFinder ==
    /\ InputReachesDashboard
    /\ viewMode = "course"
    /\ Rendered([Base EXCEPT !.courseContentFinderOpen = TRUE], fetchesInFlight,
                NoRowId, plainOpen)

CloseCourseContentFinder ==
    /\ viewMode = "course"
    /\ courseContentFinderOpen
    /\ Rendered([Base EXCEPT !.courseContentFinderOpen = FALSE], fetchesInFlight,
                NoRowId, plainOpen)

\* The content finder commits one of the rows it was given (allCourseRows
\* without the "empty" placeholder).
ApplyRow ==
    \E i \in DOMAIN allCourseRows :
        /\ viewMode = "course"
        /\ courseContentFinderOpen
        /\ allCourseRows[i].id # "empty"
        /\ Rendered(ApplyCourseContentSelection(State, Base, allCourseRows[i].id),
                    fetchesInFlight, allCourseRows[i].id, FALSE)

Back ==
    /\ InputReachesDashboard
    /\ viewMode = "course"
    /\ Rendered([CloseAssignmentModal(Base)
                     EXCEPT !.viewMode = "dashboard",
                             !.courseContentFinderOpen = FALSE,
                             !.coursePageError = NoError],
                fetchesInFlight, NoRowId, plainOpen)

\* dashboard-open-assignment-modal
OpenAssignmentModal ==
    /\ InputReachesDashboard
    /\ viewMode = "course"
    /\ OpenSelectedAssignmentModal(State, Base).assignmentModalOpen
    /\ Rendered(OpenSelectedAssignmentModal(State, Base), fetchesInFlight, NoRowId,
                plainOpen)

\* assignment-modal-close
CloseAssignmentModalKey ==
    /\ assignmentModalOpen
    /\ Rendered(CloseAssignmentModal(Base), fetchesInFlight, NoRowId, plainOpen)

RefreshCourse ==
    /\ InputReachesDashboard
    /\ viewMode = "course"
    /\ activeCourseId # NoCourse
    /\ FetchCount < MaxInFlight
    /\ Rendered(LoadCourseContents(State, Base, activeCourseId, TRUE),
                [fetchesInFlight EXCEPT ![activeCourseId] = @ + 1], NoRowId, FALSE)

\* The deltas of dashboard-up, -down, -page-up and -page-down.
MoveDeltas == {-1, 1, 0 - PageJump, PageJump}

MoveSelectionBy(delta) ==
    /\ InputReachesDashboard
    /\ viewMode = "course"
    /\ Rendered(MoveCourseSelection(State, Base, delta), fetchesInFlight, NoRowId,
                plainOpen)

\* dashboard-up, -down, -page-up, -page-down
MoveSelection == \E delta \in MoveDeltas : MoveSelectionBy(delta)

Home ==
    /\ InputReachesDashboard
    /\ viewMode = "course"
    /\ Rendered([Base EXCEPT !.courseSelectedIndex = 0], fetchesInFlight, NoRowId,
                plainOpen)

End ==
    /\ InputReachesDashboard
    /\ viewMode = "course"
    /\ Rendered([Base EXCEPT !.courseSelectedIndex =
                                 MaxCourseRowIndex(Len(courseRows))],
                fetchesInFlight, NoRowId, plainOpen)

Expand ==
    /\ InputReachesDashboard
    /\ viewMode = "course"
    /\ LET a == ExpandSelectedRow(State, Base)
       IN  Rendered(a, fetchesInFlight, NoRowId,
                    plainOpen /\ a.collapsedCourseNodeIds = collapsedCourseNodeIds)

Collapse ==
    /\ InputReachesDashboard
    /\ viewMode = "course"
    /\ LET a == CollapseSelectedRow(State, Base)
       IN  Rendered(a, fetchesInFlight, NoRowId,
                    plainOpen /\ a.collapsedCourseNodeIds = collapsedCourseNodeIds)

\* A fetchCourseContents call resolves or rejects; the continuation of
\* loadCourseContents queues its updates for the next render.
FetchCourseContentsSucceeds ==
    \E courseId \in CourseIds : \E sections \in ServerContents(courseId) :
        /\ fetchesInFlight[courseId] > 0
        /\ Len(queuedUpdates) < MaxQueued
        /\ fetchesInFlight' = [fetchesInFlight EXCEPT ![courseId] = @ - 1]
        /\ queuedUpdates' = Append(queuedUpdates,
               [courseId |-> courseId, ok |-> TRUE, sections |-> sections])
        /\ UNCHANGED <<courses, viewMode, courseFinderOpen, courseContentFinderOpen,
                       assignmentModalOpen, activeCourseId, courseSectionsById, coursePageLoading,
                       coursePageError, courseScrollOffset, courseSelectedIndex,
                       collapsedCourseNodeIds, pendingCourseTreeInitCourseId,
                       pendingCourseJumpRowId, courseRows, allCourseRows, stdoutRows,
                       lastJumpRowId, selectionClamped, plainOpen, flatVars, fuzzyVars,
                       finderVars, rankVars, captureVars, appVars>>

FetchCourseContentsFails ==
    \E courseId \in CourseIds :
        /\ fetchesInFlight[courseId] > 0
        /\ Len(queuedUpdates) < MaxQueued
        /\ fetchesInFlight' = [fetchesInFlight EXCEPT ![courseId] = @ - 1]
        /\ queuedUpdates' = Append(queuedUpdates,
               [courseId |-> courseId, ok |-> FALSE, sections |-> <<>>])
        /\ plainOpen' = FALSE
        /\ UNCHANGED <<courses, viewMode, courseFinderOpen, courseContentFinderOpen,
                       assignmentModalOpen, activeCourseId, courseSectionsById, coursePageLoading,
                       coursePageError, courseScrollOffset, courseSelectedIndex,
                       collapsedCourseNodeIds, pendingCourseTreeInitCourseId,
                       pendingCourseJumpRowId, courseRows, allCourseRows, stdoutRows,
                       lastJumpRowId, selectionClamped, flatVars, fuzzyVars, finderVars, rankVars, captureVars, appVars>>

\* The render React scheduled for the queued updates.
Render ==
    /\ queuedUpdates # <<>>
    /\ Rendered(Base, fetchesInFlight, NoRowId, plainOpen)

Init ==
    /\ NavInit
    /\ fSections = <<>>
    /\ fCollapsed = {}
    /\ fRows = BuildCourseTreeRows(<<>>, {})
    /\ fAllRows = BuildCourseTreeRows(<<>>, ToCollapsedSet(<<>>))
    /\ fDefaultIds = BuildDefaultCollapsedNodeIds(<<>>)
    /\ fPrevSections = <<>>
    /\ FuzzyInit
    /\ FinderInit
    /\ RankInit
    /\ CaptureInit
    /\ ShellInit
    /\ LoadInit
    /\ ModalInit

Next ==
    \/ LoadDashboardCompletes
    \/ OpenCourseFinder
    \/ CloseCourseFinder
    \/ ApplyCourse
    \/ OpenCourseContentFinder
    \/ CloseCourseContentFinder
    \/ ApplyRow
    \/ Back
    \/ OpenAssignmentModal
    \/ CloseAssignmentModalKey
    \/ RefreshCourse
    \/ MoveSelection
    \/ Home
    \/ End
    \/ Expand
    \/ Collapse
    \/ FetchCourseContentsSucceeds
    \/ FetchCourseContentsFails
    \/ Render

Spec == Init /\ [][Next]_vars

-----------------------------------------------------------------------------
(* The dashboard with its finder overlays: the keys an open overlay takes  *)

\* The characters typed into a finder and the longest draft.
FinderChars == {"e", "z"}

MaxDraftLen == 1

\* Largest number of fetchCourseContents calls awaited while a finder commits
\* a course.
MaxFinderFetches == 1

\* A key the open course finder handles itself: only its own state changes,
\* and it renders again with the props of the last dashboard render.
CourseFinderStep(f) ==
    /\ courseFinderOpen
    /\ courseFinder' = CourseFinderSettle(
                            State,
                            CourseFinderRender(State, f, f.draft # courseFinder.draft),
                            CourseFinderDeps(State, courseFinder))
    /\ UNCHANGED <<flatVars, navVars, fuzzyVars, contentFinder, rankVars, captureVars, appVars>>

CourseFinderType ==
    \E char \in FinderChars :
        /\ Len(courseFinder.draft) < MaxDraftLen
        /\ CourseFinderStep(FinderOnChange(courseFinder, Append(courseFinder.draft, char)))

CourseFinderMove ==
    \E delta \in {-1, 1, 0 - CourseFinderRows, CourseFinderRows} :
        CourseFinderStep(FinderMoveSelection(courseFinder, delta,
                                             Len(courseFinder.searchResults)))

CourseFinderHome == CourseFinderStep(FinderHome(courseFinder))

CourseFinderEnd ==
    CourseFinderStep(FinderEnd(courseFinder, Len(courseFinder.searchResults)))

\* Enter: applySelection commits the selected course, or closes the finder
\* when there is no result.
CourseFinderSubmit ==
    /\ courseFinderOpen
    /\ \E instantResults \in {CourseFinderResults(State, courseFinder)} :
         \E idx \in {BoundedIndex(courseFinder, instantResults)} :
           IF idx = -1
           THEN Rendered([Base EXCEPT !.courseFinderOpen = FALSE], fetchesInFlight,
                         NoRowId, plainOpen)
           ELSE /\ NeedsFetch(State, instantResults[idx + 1], FALSE)
                       => FetchCount < MaxFinderFetches
                /\ Rendered(OpenCourseFromFinder(State, Base, instantResults[idx + 1]),
                            IF NeedsFetch(State, instantResults[idx + 1], FALSE)
                            THEN [fetchesInFlight EXCEPT ![instantResults[idx + 1]] = @ + 1]
                            ELSE fetchesInFlight,
                            NoRowId, TRUE)

\* A key the open content finder handles itself.
ContentFinderStep(f) ==
    /\ ContentFinderMounted(State)
    /\ contentFinder' = ContentFinderSettle(
                             State,
                             ContentFinderRender(State, f,
                                                 \/ f.draft # contentFinder.draft
                                                 \/ f.targetIndex # contentFinder.targetIndex),
                             ContentFinderDeps(State, contentFinder))
    /\ UNCHANGED <<flatVars, navVars, fuzzyVars, courseFinder, rankVars, captureVars, appVars>>

ContentFinderType ==
    \E char \in FinderChars :
        /\ Len(contentFinder.draft) < MaxDraftLen
        /\ ContentFinderStep(FinderOnChange(contentFinder,
                                            Append(contentFinder.draft, char)))

ContentFinderMove ==
    \E delta \in {-1, 1, 0 - ResultRows, ResultRows} :
        ContentFinderStep(FinderMoveSelection(contentFinder, delta,
                                              Len(contentFinder.searchResults)))

ContentFinderHome == ContentFinderStep(FinderHome(contentFinder))

ContentFinderEnd ==
    ContentFinderStep(FinderEnd(contentFinder, Len(contentFinder.searchResults)))

ContentFinderCycleTarget ==
    \E delta \in {-1, 1} :
        ContentFinderStep(CycleTarget(contentFinder, delta,
                              Len(BuildCourseContentTargets(allCourseRows))))

ContentFinderSubmitResettingSelection ==
    /\ ContentFinderMounted(State)
    /\ \E instantResults \in {ContentFinderResults(State, contentFinder)} :
         \E idx \in {BoundedIndex(contentFinder, instantResults)} :
           IF idx = -1
           THEN Rendered([Base EXCEPT !.courseContentFinderOpen = FALSE,
                                      !.courseSelectedIndex = 0],
                         fetchesInFlight, NoRowId, plainOpen)
           ELSE Rendered(ApplyCourseContentSelection(State, Base,
                                                     instantResults[idx + 1].id),
                         fetchesInFlight, instantResults[idx + 1].id, FALSE)

\* Enter: applySelection commits the selected row, or closes the finder
\* when there is no result.
ContentFinderSubmit ==
    /\ ContentFinderMounted(State)
    /\ \E instantResults \in {ContentFinderResults(State, contentFinder)} :
         \E idx \in {BoundedIndex(contentFinder, instantResults)} :
           IF idx = -1
           THEN Rendered([Base EXCEPT !.courseContentFinderOpen = FALSE],
                         fetchesInFlight, NoRowId, plainOpen)
           ELSE Rendered(ApplyCourseContentSelection(State, Base,
                                                     instantResults[idx + 1].id),
                         fetchesInFlight, instantResults[idx + 1].id, FALSE)

FinderNext ==
    \/ LoadDashboardCompletes
    \/ OpenCourseFinder
    \/ CloseCourseFinder
    \/ CourseFinderType
    \/ CourseFinderMove
    \/ CourseFinderHome
    \/ CourseFinderEnd
    \/ CourseFinderSubmit
    \/ OpenCourseContentFinder
    \/ CloseCourseContentFinder
    \/ ContentFinderType
    \/ ContentFinderMove
    \/ ContentFinderHome
    \/ ContentFinderEnd
    \/ ContentFinderCycleTarget
    \/ ContentFinderSubmit
    \/ FetchCourseContentsSucceeds
    \/ Render

FinderSpec == Init /\ [][FinderNext]_vars

-----------------------------------------------------------------------------
(* The ranking harness: a query grows by one character at a time, a course *)
(* list and a row list by one element, and filterCoursesByFuzzyQuery and   *)
(* filterCourseContentByFuzzyQuery are applied to them.                    *)

\* The characters of the queries: two letters and the space trim removes.
RankChars == {"o", "e", " "}

MaxRankQueryLen == 2

\* The courses and rows ranked at a time.
MaxRankInputs == 3

CatalogueIds == 1..4

NotesText == <<"N", "o", "t", "e", "s">>

\* A name of 101 characters that holds the letter o once, at its end.
LongText == <<LongFiller, "o">>

NotesFile ==
    [type |-> <<"f", "i", "l", "e">>, filename |-> NotesText, fileurl |-> <<>>,
     url |-> <<>>]

\* A section named like the two files of its activity; the activity's
\* description repeats its long name.
RankedSection ==
    [id |-> 10, name |-> NotesText, section |-> 1, summary |-> <<>>,
     modules |-> << [id |-> 55, name |-> LongText, modname |-> TypeForum,
                     description |-> LongText, url |-> <<>>,
                     contents |-> <<NotesFile, NotesFile>>] >>]

\* The rows to rank: the flattened section and the placeholder of an empty
\* course.
RankRowPool == Range(BuildCourseTreeRows(<<RankedSection>>, {})) \cup {EmptyRow}

RankSet(query, courseIds, rows) ==
    /\ rkQuery' = query
    /\ rkCourses' = courseIds
    /\ rkRows' = rows
    /\ rkCourseResult' = FilterCoursesByFuzzyQuery(courseIds, query)
    /\ rkRowResult' = FilterCourseContentByFuzzyQuery(rows, query)
    /\ UNCHANGED <<flatVars, navVars, fuzzyVars, finderVars, captureVars, appVars>>

RankTypeQuery ==
    \E char \in RankChars :
        /\ Len(rkQuery) < MaxRankQueryLen
        /\ RankSet(Append(rkQuery, char), rkCourses, rkRows)

RankAppendCourse ==
    \E courseId \in CatalogueIds \ Range(rkCourses) :
        /\ Len(rkCourses) + Len(rkRows) < MaxRankInputs
        /\ RankSet(rkQuery, Append(rkCourses, courseId), rkRows)

RankAppendRow ==
    \E row \in RankRowPool \ Range(rkRows) :
        /\ Len(rkCourses) + Len(rkRows) < MaxRankInputs
        /\ RankSet(rkQuery, rkCourses, Append(rkRows, row))

RankNext == RankTypeQuery \/ RankAppendCourse \/ RankAppendRow

RankSpec == FlatInit /\ [][RankNext]_vars

-----------------------------------------------------------------------------
(* The input-capture reference count                                       *)

\* Largest number of acquire calls.
MaxAcquires == 3

\* Largest number of setCaptureCount updaters awaiting one render.
MaxCountUpdates == 2

\* The calls of one release closure are counted up to this number.
MaxReleaseCalls == 2

\* A caller of context.acquire other than useInputCapture.
DirectHolder == "direct"

\* The state the capture code reads and writes.
Capture ==
    [countUpdates |-> countUpdates, handles |-> handles, consumers |-> consumers]

\* The two updaters handed to setCaptureCount.
ApplyUpdater(updater, prev) ==
    IF updater = "increment" THEN prev + 1 ELSE Max(0, prev - 1)

\* React applies the queued updaters in the order of the calls.
RECURSIVE ApplyCountUpdates(_, _)
ApplyCountUpdates(queue, count) ==
    IF queue = <<>> THEN count
    ELSE ApplyCountUpdates(Tail(queue), ApplyUpdater(Head(queue), count))

\* context.acquire(): the new closure is the last of the handles.
AcquireCall(c, holder) ==
    [c EXCEPT !.handles = Append(@, [released |-> FALSE, holder |-> holder, calls |-> 0]),
              !.countUpdates = Append(@, "increment")]

ReleaseCallWithoutFlag(c, h) ==
    [c EXCEPT !.handles[h].released = TRUE,
              !.handles[h].calls = Min(@ + 1, MaxReleaseCalls),
              !.countUpdates = Append(@, "decrement")]

\* A call of the closure that acquire call `h` returned.
ReleaseCall(c, h) ==
    IF c.handles[h].released
    THEN [c EXCEPT !.handles[h].calls = Min(@ + 1, MaxReleaseCalls)]
    ELSE [c EXCEPT !.handles[h].released = TRUE,
                   !.handles[h].calls = Min(@ + 1, MaxReleaseCalls),
                   !.countUpdates = Append(@, "decrement")]

\* The release of the closure in releaseRef, as the effect's body and its
\* cleanup do it.
ReleaseRef(c, k) ==
    IF c.consumers[k].releaseRef = NoHandle THEN c
    ELSE [ReleaseCall(c, c.consumers[k].releaseRef)
             EXCEPT !.consumers[k].releaseRef = NoHandle]

\* The body of useInputCapture's effect.
EffectBody(c, k, active) ==
    IF active /\ c.consumers[k].releaseRef = NoHandle
    THEN [AcquireCall(c, k) EXCEPT !.consumers[k].releaseRef = Len(c.handles) + 1]
    ELSE IF ~active THEN ReleaseRef(c, k)
    ELSE c

CaptureSet(c) ==
    /\ Len(c.countUpdates) <= MaxCountUpdates
    /\ Len(c.handles) <= MaxAcquires
    /\ countUpdates' = c.countUpdates
    /\ handles' = c.handles
    /\ consumers' = c.consumers
    /\ UNCHANGED <<captureCount, blocked, flatVars, navVars, fuzzyVars, finderVars, rankVars, appVars>>

\* A component that calls useInputCapture is mounted: the effect runs.
MountConsumer ==
    \E k \in Consumers : \E active \in BOOLEAN :
        /\ ~consumers[k].mounted
        /\ CaptureSet(EffectBody([Capture EXCEPT !.consumers[k].mounted = TRUE,
                                                 !.consumers[k].active = active],
                                 k, active))

\* It is rendered with another value of `active`: the cleanup of the last
\* effect runs, then the effect.
RerenderConsumer ==
    \E k \in Consumers :
        /\ consumers[k].mounted
        /\ CaptureSet(EffectBody(ReleaseRef([Capture EXCEPT !.consumers[k].active =
                                                                ~consumers[k].active],
                                            k),
                                 k, ~consumers[k].active))

\* It is unmounted: the cleanup runs.
UnmountConsumer ==
    \E k \in Consumers :
        /\ consumers[k].mounted
        /\ CaptureSet(ReleaseRef([Capture EXCEPT !.consumers[k].mounted = FALSE,
                                                 !.consumers[k].active = FALSE],
                                 k))

\* Another caller acquires, and any holder of a closure calls it, also when
\* it was called before.
AcquireDirect == CaptureSet(AcquireCall(Capture, DirectHolder))

ReleaseAnyHandle ==
    \E h \in DOMAIN handles : CaptureSet(ReleaseCall(Capture, h))

\* The provider renders with the queued updaters applied; its effect runs
\* when the count has changed and reports to the shell.
RenderProvider ==
    /\ countUpdates # <<>>
    /\ captureCount' = ApplyCountUpdates(countUpdates, captureCount)
    /\ countUpdates' = <<>>
    /\ blocked' = IF captureCount' # captureCount THEN captureCount' > 0 ELSE blocked
    /\ UNCHANGED <<handles, consumers, flatVars, navVars, fuzzyVars, finderVars, rankVars, appVars>>

CaptureNext ==
    \/ MountConsumer
    \/ RerenderConsumer
    \/ UnmountConsumer
    \/ AcquireDirect
    \/ ReleaseAnyHandle
    \/ RenderProvider

CaptureSpec == FlatInit /\ [][CaptureNext]_vars

-----------------------------------------------------------------------------
(* The shell, the dashboard and the overlays, one keystroke at a time      *)

\* The keys of the shortcuts that open or close something, quit or log out
\* (shortcuts.ts), and "r" for the keys that do neither.
Keys == {"?", "q", "l", "/", "f", "r", "return", "escape"}

\* The handler MainShell hands to useInput, with the settingsOpen and
\* globalShortcutsBlocked of its last render.
MainShellInputUnblocked(s, globalShortcutsBlocked, key) ==
    IF s.settingsOpen
    THEN IF key \in {"escape", "?"} THEN [s EXCEPT !.settingsOpen = FALSE] ELSE s
    ELSE IF key = "?" THEN [s EXCEPT !.settingsOpen = TRUE]
    ELSE IF key = "q" THEN [s EXCEPT !.exitCalled = TRUE]
    ELSE IF key = "l" THEN [s EXCEPT !.logoutCalled = TRUE]
    ELSE s

MainShellInput(s, globalShortcutsBlocked, key) ==
    IF s.settingsOpen
    THEN IF key \in {"escape", "?"} THEN [s EXCEPT !.settingsOpen = FALSE] ELSE s
    ELSE IF globalShortcutsBlocked THEN s
    ELSE IF key = "?" THEN [s EXCEPT !.settingsOpen = TRUE]
    ELSE IF key = "q" THEN [s EXCEPT !.exitCalled = TRUE]
    ELSE IF key = "l" THEN [s EXCEPT !.logoutCalled = TRUE]
    ELSE s

DashboardInputWhileSettingsOpen(d, inputEnabled, key, isAssignment) ==
    IF d.assignmentModalOpen
    THEN IF key = "escape" THEN [d EXCEPT !.assignmentModalOpen = FALSE] ELSE d
    ELSE IF d.courseFinderOpen \/ d.courseContentFinderOpen THEN d
    ELSE IF key = "/" THEN [d EXCEPT !.courseFinderOpen = TRUE]
    ELSE IF d.viewMode # "course" THEN d
    ELSE IF key = "f" THEN [d EXCEPT !.courseContentFinderOpen = TRUE]
    ELSE IF key = "return"
    THEN IF isAssignment THEN [d EXCEPT !.assignmentModalOpen = TRUE] ELSE d
    ELSE IF key = "escape"
    THEN [d EXCEPT !.viewMode = "dashboard",
                   !.courseContentFinderOpen = FALSE,
                   !.assignmentModalOpen = FALSE]
    ELSE d

\* The handler Dashboard hands to useStableInput, as far as it opens and
\* closes overlays and changes the view mode.  isAssignment: the selected
\* row is an assignment activity, so that openSelectedAssignmentModal opens
\* the modal.
DashboardInput(d, inputEnabled, key, isAssignment) ==
    IF ~inputEnabled THEN d
    ELSE IF d.assignmentModalOpen
    THEN IF key = "escape" THEN [d EXCEPT !.assignmentModalOpen = FALSE] ELSE d
    ELSE IF d.courseFinderOpen \/ d.courseContentFinderOpen THEN d
    ELSE IF key = "/" THEN [d EXCEPT !.courseFinderOpen = TRUE]
    ELSE IF d.viewMode # "course" THEN d
    ELSE IF key = "f" THEN [d EXCEPT !.courseContentFinderOpen = TRUE]
    ELSE IF key = "return"
    THEN IF isAssignment THEN [d EXCEPT !.assignmentModalOpen = TRUE] ELSE d
    ELSE IF key = "escape"
    THEN [d EXCEPT !.viewMode = "dashboard",
                   !.courseContentFinderOpen = FALSE,
                   !.assignmentModalOpen = FALSE]
    ELSE d

\* The course finder is rendered when its flag is set, the content finder
\* when its flag is set on the course page.
CourseFinderMounted(d) == d.courseFinderOpen

CourseContentFinderMounted(d) == d.viewMode = "course" /\ d.courseContentFinderOpen

\* The key handlers of the two finder overlays on the dashboard state `d`;
\* `mounted` is the state of the last render.  Escape calls onClose; Enter
\* calls applySelection, which calls onClose when nothing is selected and
\* else onApplyCourse (openCourseFromFinder) or onApplyRow
\* (applyCourseContentSelection).
OverlayInput(mounted, d, key, hasSelection) ==
    IF CourseFinderMounted(mounted)
    THEN IF key = "escape" \/ (key = "return" /\ ~hasSelection)
         THEN [d EXCEPT !.courseFinderOpen = FALSE]
         ELSE IF key = "return"
         THEN [d EXCEPT !.viewMode = "course",
                        !.courseFinderOpen = FALSE,
                        !.courseContentFinderOpen = FALSE,
                        !.assignmentModalOpen = FALSE]
         ELSE d
    ELSE IF CourseContentFinderMounted(mounted)
    THEN IF key \in {"escape", "return"}
         THEN [d EXCEPT !.courseContentFinderOpen = FALSE]
         ELSE d
    ELSE d

\* The argument of Dashboard's useInputCapture.
ScreenCaptures(d) ==
    d.courseFinderOpen \/ d.courseContentFinderOpen \/ d.assignmentModalOpen

\* useInputCapture's effect after a render of Dashboard with the flags `d`.
CaptureAfterRender(c, d) ==
    IF ScreenCaptures(d) = c.consumers["Dashboard"].active THEN c
    ELSE EffectBody(ReleaseRef([c EXCEPT !.consumers["Dashboard"].active =
                                             ScreenCaptures(d)],
                               "Dashboard"),
                    "Dashboard", ScreenCaptures(d))

\* The provider renders with the queued updaters and reports to the shell.
ShellSettle(c) ==
    /\ Len(c.handles) <= MaxAcquires
    /\ handles' = c.handles
    /\ consumers' = c.consumers
    /\ countUpdates' = <<>>
    /\ captureCount' = ApplyCountUpdates(c.countUpdates, captureCount)
    /\ blocked' = IF captureCount' # captureCount THEN captureCount' > 0 ELSE blocked
    /\ UNCHANGED <<flatVars, navVars, fuzzyVars, finderVars, rankVars, loadVars, modalVars>>

\* MainShell is mounted with Dashboard inside the provider.
MountShell ==
    /\ ~consumers["Dashboard"].mounted
    /\ ShellSettle(EffectBody([Capture EXCEPT !.consumers["Dashboard"].mounted = TRUE],
                              "Dashboard", ScreenCaptures(screen)))
    /\ UNCHANGED shellVars

\* The flags of Dashboard after the handlers have run on a keystroke.
ScreenAfterInput(d, inputEnabled, key, isAssignment, hasSelection) ==
    OverlayInput(d, DashboardInput(d, inputEnabled, key, isAssignment), key, hasSelection)

\* The state of Dashboard after a keystroke and the effect on viewMode that
\* the render sets off (off the course page the assignment modal is closed).
ScreenAfterKey(d, inputEnabled, key, isAssignment, hasSelection) ==
    ViewModeEffect(ScreenAfterInput(d, inputEnabled, key, isAssignment, hasSelection),
                   ScreenAfterInput(d, inputEnabled, key, isAssignment, hasSelection))

\* One keystroke: ink hands it to every handler registered with useInput,
\* each with the state of the last render; then the renders and effects
\* follow up to the shell's blocked flag.
PressKey ==
    \E key \in Keys : \E isAssignment \in BOOLEAN : \E hasSelection \in BOOLEAN :
        /\ consumers["Dashboard"].mounted
        /\ ~shell.exitCalled
        /\ ~shell.logoutCalled
        /\ lastKey' = key
        /\ shell' = MainShellInput(shell, blocked, key)
        /\ \E d \in {ScreenAfterKey(screen, ~shell.settingsOpen, key,
                                    isAssignment, hasSelection)} :
               /\ screen' = d
               /\ ShellSettle(CaptureAfterRender(Capture, d))

ShellNext ==
    \/ MountShell
    \/ PressKey

ShellSpec == FlatInit /\ [][ShellNext]_vars

-----------------------------------------------------------------------------
(* loadDashboard: the course list, its source and the cache fallback       *)

\* Largest number of loadDashboard calls awaiting a response.
MaxLoads == 2

\* The course lists fetchCourses can deliver and an earlier run can have
\* left in the cache.
CourseLists == {<<>>, <<1>>, <<1, 2>>}

\* The lists fetchUpcomingAssignments can deliver: fewer assignments than
\* the dashboard has rows (at least 6), so that dashboardScrollOffset stays
\* 0; `named` stands for courseShortName and courseFullName being set.
AssignmentLists ==
    {<<>>,
     <<[id |-> 5, courseId |-> 1, named |-> FALSE]>>,
     <<[id |-> 5, courseId |-> 2, named |-> FALSE]>>,
     <<[id |-> 5, courseId |-> 2, named |-> TRUE]>>}

\* The messages of the errors the fetches throw ("Unknown Moodle API error"
\* stands in for a thrown value that is no Error).
ErrorMessages == {"Unknown Moodle API error", "Request timed out"}

\* enrichAssignmentsWithCourseNames
EnrichAssignmentsWithCourseNames(assignments, courseList) ==
    [i \in DOMAIN assignments |->
        IF assignments[i].named THEN assignments[i]
        ELSE IF assignments[i].courseId \notin Range(courseList) THEN assignments[i]
        ELSE [assignments[i] EXCEPT !.named = TRUE]]

\* loadDashboard up to its first await.
LoadDashboardStart(b, forceRefresh) ==
    [b EXCEPT !.loading = TRUE,
              !.error = IF forceRefresh THEN @ ELSE NoErrorText]

\* fetchCourses has resolved: the updates up to the second await.
LoadDashboardCourses(b, liveCourses) ==
    [b EXCEPT !.courses = liveCourses, !.dataSource = "live"]

\* fetchUpcomingAssignments has resolved; the finally block follows.
LoadDashboardAssignments(b, assignments) ==
    [b EXCEPT !.upcomingAssignments = EnrichAssignmentsWithCourseNames(assignments, b.courses),
              !.error = NoErrorText,
              !.loading = FALSE]

\* fetchUpcomingAssignments has thrown: the inner catch and the finally block.
LoadDashboardAssignmentsFailed(b, message) ==
    [b EXCEPT !.upcomingAssignments = <<>>,
              !.error = <<"Assignments unavailable: ", message>>,
              !.loading = FALSE]

LoadDashboardCoursesFailedKeepingCourses(b, forceRefresh, cached, message) ==
    [b EXCEPT !.error = <<"Refresh failed: ", message>>,
              !.loading = FALSE]

\* fetchCourses has thrown: the outer catch and the finally block.  `cached`
\* is what getCachedCourses() returns.
LoadDashboardCoursesFailed(b, forceRefresh, cached, message) ==
    IF ~forceRefresh
    THEN IF cached.present /\ Len(cached.courses) > 0
         THEN [b EXCEPT !.courses = cached.courses,
                        !.upcomingAssignments = <<>>,
                        !.dataSource = "cache",
                        !.error = <<"Live sync failed; showing cached courses. ", message>>,
                        !.loading = FALSE]
         ELSE [b EXCEPT !.dataSource = "none",
                        !.courses = <<>>,
                        !.upcomingAssignments = <<>>,
                        !.error = <<"Failed to load dashboard: ", message>>,
                        !.loading = FALSE]
    ELSE [b EXCEPT !.error = <<"Refresh failed: ", message>>,
                   !.loading = FALSE]

\* The sequence without its i-th element.
RemoveAt(seq, i) == SubSeq(seq, 1, i - 1) \o SubSeq(seq, i + 1, Len(seq))

LoadSet(b, cache, calls) ==
    /\ board' = b
    /\ courseCache' = cache
    /\ loads' = calls
    /\ UNCHANGED <<flatVars, navVars, fuzzyVars, finderVars, rankVars, captureVars, shellVars, modalVars>>

\* Dashboard is mounted; the mount effect calls loadDashboard without
\* forceRefresh.  The cache file is as an earlier run has left it.
LoadMount ==
    \E list \in CourseLists : \E present \in BOOLEAN :
        /\ ~board.mounted
        /\ LoadSet(LoadDashboardStart([board EXCEPT !.mounted = TRUE], FALSE),
                   IF present THEN Cached(list) ELSE NoCache,
                   Append(loads, [forceRefresh |-> FALSE, stage |-> "courses"]))

\* The refresh key on the dashboard view.
LoadRefresh ==
    /\ board.mounted
    /\ Len(loads) < MaxLoads
    /\ LoadSet(LoadDashboardStart(board, TRUE), courseCache,
               Append(loads, [forceRefresh |-> TRUE, stage |-> "courses"]))

\* fetchCourses resolves for one of the calls; saveCoursesToCache writes the
\* cache file, or fails to and says nothing.
LoadCoursesSucceed ==
    \E i \in DOMAIN loads : \E liveCourses \in CourseLists : \E written \in BOOLEAN :
        /\ loads[i].stage = "courses"
        /\ LoadSet(LoadDashboardCourses(board, liveCourses),
                   IF written THEN Cached(liveCourses) ELSE courseCache,
                   [loads EXCEPT ![i].stage = "assignments"])

\* fetchCourses throws for one of the calls.
LoadCoursesFail ==
    \E i \in DOMAIN loads : \E message \in ErrorMessages :
        /\ loads[i].stage = "courses"
        /\ LoadSet(LoadDashboardCoursesFailed(board, loads[i].forceRefresh, courseCache,
                                              message),
                   courseCache, RemoveAt(loads, i))

LoadAssignmentsSucceed ==
    \E i \in DOMAIN loads : \E assignments \in AssignmentLists :
        /\ loads[i].stage = "assignments"
        /\ LoadSet(LoadDashboardAssignments(board, assignments), courseCache,
                   RemoveAt(loads, i))

LoadAssignmentsFail ==
    \E i \in DOMAIN loads : \E message \in ErrorMessages :
        /\ loads[i].stage = "assignments"
        /\ LoadSet(LoadDashboardAssignmentsFailed(board, message), courseCache,
                   RemoveAt(loads, i))

\* The cache entry passes its time to live, or the file is removed.
CacheExpires ==
    /\ courseCache.present
    /\ LoadSet(board, NoCache, loads)

LoadNext ==
    \/ LoadMount
    \/ LoadRefresh
    \/ LoadCoursesSucceed
    \/ LoadCoursesFail
    \/ LoadAssignmentsSucceed
    \/ LoadAssignmentsFail
    \/ CacheExpires

LoadSpec == FlatInit /\ [][LoadNext]_vars

-----------------------------------------------------------------------------
(* The assignment modal: request ids and the completions of its fetches    *)

\* Largest value of assignmentModalRequestIdRef.current.
MaxRequestId == 4

\* Largest number of openSelectedAssignmentModal calls at an await.
MaxModalRequests == 2

\* The assignment activities of the shown course a row can be selected for:
\* one whose instance is an assignment id, one that is found by its cmid only
\* and one the course's assignments do not hold.
AssignmentModules ==
    {[id |-> 90, instance |-> 7],
     [id |-> 91, instance |-> 999],
     [id |-> 92, instance |-> 998]}

\* The lists fetchCourseAssignments can deliver for the course.
AssignmentDetailLists ==
    {<<>>,
     <<[id |-> 8, cmid |-> 90], [id |-> 7, cmid |-> 12]>>,
     <<[id |-> 7, cmid |-> 12], [id |-> 9, cmid |-> 91]>>}

\* The submission states fetchAssignmentSubmissionStatus can deliver.
SubmissionStatuses == {"submitted", "new"}

\* resolveAssignmentForModule; NoAssignment for null.
ResolveAssignmentForModule(module, assignments) ==
    IF \E i \in DOMAIN assignments : assignments[i].id = module.instance
    THEN assignments[CHOOSE i \in DOMAIN assignments :
                         /\ assignments[i].id = module.instance
                         /\ \A j \in 1..(i - 1) : assignments[j].id # module.instance].id
    ELSE IF \E i \in DOMAIN assignments : assignments[i].cmid = module.id
    THEN assignments[CHOOSE i \in DOMAIN assignments :
                         /\ assignments[i].cmid = module.id
                         /\ \A j \in 1..(i - 1) : assignments[j].cmid # module.id].id
    ELSE NoAssignment

\* The state the modal code reads and writes.
ModalState ==
    [modal |-> modal, caches |-> assignmentCaches, ref |-> requestIdRef,
     requests |-> modalRequests]

\* closeAssignmentModal
CloseAssignmentModalCall(m) ==
    [m EXCEPT !.ref = @ + 1,
              !.modal.open = FALSE,
              !.modal.detailLoading = FALSE,
              !.modal.statusLoading = FALSE,
              !.modal.detailError = NoErrorText,
              !.modal.statusError = NoErrorText]

IsSupersededNever(m, request) == FALSE

\* assignmentModalRequestIdRef.current !== requestId
IsSuperseded(m, request) == m.ref # request.requestId

\* openSelectedAssignmentModal from resolveAssignmentForModule on, for a call
\* that is not superseded: `request` holds the call's requestId, its module
\* and the assignmentStatusByAssignmentId of its closure.  The call ends or
\* goes on to await fetchAssignmentSubmissionStatus.
ResolveAndContinue(m, request, courseAssignments) ==
    IF ResolveAssignmentForModule(request.module, courseAssignments) = NoAssignment
    THEN [m EXCEPT !.modal.detailError =
                       <<"Assignment details unavailable for this activity. This Moodle module could not be matched.">>,
                   !.modal.detailLoading = FALSE]
    ELSE IF ResolveAssignmentForModule(request.module, courseAssignments)
                \in request.statusIds
    THEN [m EXCEPT !.modal.context.assignmentId =
                       IF m.modal.context.present
                       THEN ResolveAssignmentForModule(request.module, courseAssignments)
                       ELSE @,
                   !.caches.detail = @ \cup
                       {ResolveAssignmentForModule(request.module, courseAssignments)},
                   !.modal.detailLoading = FALSE,
                   !.modal.statusLoading = FALSE]
    ELSE [m EXCEPT !.modal.context.assignmentId =
                       IF m.modal.context.present
                       THEN ResolveAssignmentForModule(request.module, courseAssignments)
                       ELSE @,
                   !.caches.detail = @ \cup
                       {ResolveAssignmentForModule(request.module, courseAssignments)},
                   !.modal.detailLoading = FALSE,
                   !.modal.statusLoading = TRUE,
                   !.requests = Append(@,
                       [request EXCEPT
                           !.stage = "status",
                           !.assignmentId =
                               ResolveAssignmentForModule(request.module,
                                                          courseAssignments)])]

\* openSelectedAssignmentModal up to its first await, for a selected row that
\* is the assignment activity `module`.
OpenSelectedAssignmentModalCall(m, module) ==
    IF m.caches.list.present
    THEN ResolveAndContinue(
             [m EXCEPT !.ref = @ + 1,
                       !.modal = [open |-> TRUE,
                                  context |-> [present |-> TRUE, moduleId |-> module.id,
                                               assignmentId |-> NoAssignment],
                                  detailLoading |-> TRUE,
                                  statusLoading |-> FALSE,
                                  detailError |-> NoErrorText,
                                  statusError |-> NoErrorText]],
             [requestId |-> m.ref + 1, stage |-> "list", module |-> module,
              statusIds |-> {st[1] : st \in m.caches.status},
              assignmentId |-> NoAssignment],
             m.caches.list.courses)
    ELSE [m EXCEPT !.ref = @ + 1,
                   !.modal = [open |-> TRUE,
                              context |-> [present |-> TRUE, moduleId |-> module.id,
                                           assignmentId |-> NoAssignment],
                              detailLoading |-> TRUE,
                              statusLoading |-> FALSE,
                              detailError |-> NoErrorText,
                              statusError |-> NoErrorText],
                   !.requests = Append(@,
                       [requestId |-> m.ref + 1, stage |-> "list", module |-> module,
                        statusIds |-> {st[1] : st \in m.caches.status},
                        assignmentId |-> NoAssignment])]

\* The state with the i-th awaiting call taken out.
WithoutRequest(m, i) == [m EXCEPT !.requests = RemoveAt(@, i)]

\* fetchCourseAssignments has resolved for the i-th awaiting call.
AssignmentsFetched(m, i, courseAssignments) ==
    IF IsSuperseded(m, m.requests[i]) THEN WithoutRequest(m, i)
    ELSE ResolveAndContinue(
             [WithoutRequest(m, i) EXCEPT
                 !.caches.list = Cached(courseAssignments),
                 !.caches.detail = @ \cup
                     {courseAssignments[k].id : k \in DOMAIN courseAssignments}],
             m.requests[i], courseAssignments)

\* fetchCourseAssignments has thrown.
AssignmentsFetchFailed(m, i, message) ==
    IF IsSuperseded(m, m.requests[i]) THEN WithoutRequest(m, i)
    ELSE [WithoutRequest(m, i) EXCEPT
             !.modal.detailError = <<"Assignment details unavailable: ", message>>,
             !.modal.detailLoading = FALSE]

\* fetchAssignmentSubmissionStatus has resolved: the try and the finally block.
StatusFetched(m, i, status) ==
    IF IsSuperseded(m, m.requests[i]) THEN WithoutRequest(m, i)
    ELSE [WithoutRequest(m, i) EXCEPT
             !.caches.status =
                 {st \in @ : st[1] # m.requests[i].assignmentId}
                     \cup {<<m.requests[i].assignmentId, status>>},
             !.modal.statusLoading = FALSE]

\* fetchAssignmentSubmissionStatus has thrown: the catch and the finally block.
StatusFetchFailed(m, i, message) ==
    IF IsSuperseded(m, m.requests[i]) THEN WithoutRequest(m, i)
    ELSE [WithoutRequest(m, i) EXCEPT
             !.modal.statusError = <<"Submission status unavailable: ", message>>,
             !.modal.statusLoading = FALSE]

ModalSet(m) ==
    /\ m.ref <= MaxRequestId
    /\ Len(m.requests) <= MaxModalRequests
    /\ modal' = m.modal
    /\ assignmentCaches' = m.caches
    /\ requestIdRef' = m.ref
    /\ modalRequests' = m.requests
    /\ UNCHANGED <<flatVars, navVars, fuzzyVars, finderVars, rankVars, captureVars,
                   shellVars, loadVars>>

\* dashboard-open-assignment-modal on a selected assignment activity; the
\* handler returns at once while the modal is open.
ModalOpen ==
    \E module \in AssignmentModules :
        /\ ~modal.open
        /\ ModalSet(OpenSelectedAssignmentModalCall(ModalState, module))

\* assignment-modal-close
ModalClose ==
    /\ modal.open
    /\ ModalSet(CloseAssignmentModalCall(ModalState))

\* The other callers of closeAssignmentModal, which clear the context too:
\* dashboard-back with the effect on viewMode, and openCourseFromFinder.
\* They are reached with the modal closed only.
ModalLeaveCoursePage ==
    /\ ~modal.open
    /\ ModalSet([CloseAssignmentModalCall(ModalState) EXCEPT !.modal.context = NoContext])

ModalAssignmentsFetched ==
    \E i \in DOMAIN modalRequests : \E courseAssignments \in AssignmentDetailLists :
        /\ modalRequests[i].stage = "list"
        /\ ModalSet(AssignmentsFetched(ModalState, i, courseAssignments))

ModalAssignmentsFetchFailed ==
    \E i \in DOMAIN modalRequests : \E message \in ErrorMessages :
        /\ modalRequests[i].stage = "list"
        /\ ModalSet(AssignmentsFetchFailed(ModalState, i, message))

ModalStatusFetched ==
    \E i \in DOMAIN modalRequests : \E status \in SubmissionStatuses :
        /\ modalRequests[i].stage = "status"
        /\ ModalSet(StatusFetched(ModalState, i, status))

ModalStatusFetchFailed ==
    \E i \in DOMAIN modalRequests : \E message \in ErrorMessages :
        /\ modalRequests[i].stage = "status"
        /\ ModalSet(StatusFetchFailed(ModalState, i, message))

ModalNext ==
    \/ ModalOpen
    \/ ModalClose
    \/ ModalLeaveCoursePage
    \/ ModalAssignmentsFetched
    \/ ModalAssignmentsFetchFailed
    \/ ModalStatusFetched
    \/ ModalStatusFetchFailed

ModalSpec == FlatInit /\ [][ModalNext]_vars

-----------------------------------------------------------------------------
(* Properties of the course-page navigation (checked under Spec).  Every   *)
(* state of Spec is a settled one: each step ends with the render and the  *)
(* effects it sets off, run until they change nothing.                     *)

SelectedRow == courseRows[courseSelectedIndex + 1]

NothingOutstanding ==
    /\ queuedUpdates = <<>>
    /\ \A courseId \in CourseIds : fetchesInFlight[courseId] = 0

\* The ids on the parent chain of the row `id` of `rows`.
RECURSIVE AncestorIds(_, _)
AncestorIds(rows, id) ==
    LET parents == {rows[i].parentId : i \in {j \in DOMAIN rows : rows[j].id = id}}
                       \ {NoParent}
    IN  parents \cup UNION {AncestorIds(rows, p) : p \in parents}

\* C1: in every settled state 0 <= selectedIndex < rows.length for the
\* current flattened rows; a selection the shrunken rows left behind is moved
\* to the last row.
C1_SelectionBound ==
    /\ 0 <= courseSelectedIndex
    /\ courseSelectedIndex < Len(courseRows)
    /\ selectionClamped => courseSelectedIndex = Len(courseRows) - 1

\* The selection was beyond the rows a refresh left: three rows, selection on
\* the last, nothing scrolled.
C1_Witness ==
    /\ selectionClamped
    /\ Len(courseRows) = 3
    /\ courseSelectedIndex = 2
    /\ courseScrollOffset = 0

\* C2: in every settled state 0 <= scrollOffset <= max(0, rows.length -
\* visibleRowCount) and scrollOffset <= selectedIndex < scrollOffset +
\* visibleRowCount: the selected row is inside the visible window.
C2_ScrollWindow ==
    /\ 0 <= courseScrollOffset
    /\ courseScrollOffset <= Max(0, Len(courseRows) - ContentRows)
    /\ courseScrollOffset <= courseSelectedIndex
    /\ courseSelectedIndex < courseScrollOffset + ContentRows

\* More rows than the window holds, the window scrolled to its end and the
\* selection on its last row.
C2_Witness ==
    /\ Len(courseRows) > ContentRows
    /\ courseScrollOffset = Len(courseRows) - ContentRows
    /\ courseSelectedIndex = Len(courseRows) - 1

\* C3: once the content of the active course has finished loading (it is
\* there and no request for it is outstanding) and before any toggle, jump,
\* refresh or failure since the course was opened, the collapsed set is the
\* default policy of the course's sections and the pending-init marker is
\* cleared, whatever the order of course openings and fetch completions.
C3_DefaultCollapseAfterLoading ==
    ( /\ viewMode = "course"
      /\ activeCourseId # NoCourse
      /\ plainOpen
      /\ queuedUpdates = <<>>
      /\ fetchesInFlight[activeCourseId] = 0
      /\ courseSectionsById[activeCourseId].present )
    => /\ ToCollapsedSet(collapsedCourseNodeIds) =
              ToCollapsedSet(BuildDefaultCollapsedNodeIds(
                                 courseSectionsById[activeCourseId].sections))
       /\ pendingCourseTreeInitCourseId = NoCourse

\* C4: after a content-finder result whose id is in the unfiltered tree was
\* committed, no ancestor of the target is in the collapsed set, the row at
\* selectedIndex has the target id and the pending-jump marker is cleared.
C4_JumpSelectsTarget ==
    (lastJumpRowId # NoRowId /\ HasRowId(allCourseRows, lastJumpRowId))
    => /\ AncestorIds(allCourseRows, lastJumpRowId)
              \cap ToCollapsedSet(collapsedCourseNodeIds) = {}
       /\ courseSelectedIndex < Len(courseRows)
       /\ SelectedRow.id = lastJumpRowId
       /\ pendingCourseJumpRowId = NoRowId

\* A content item two collapsible levels down was jumped to.
C4_Witness ==
    /\ lastJumpRowId # NoRowId
    /\ courseSelectedIndex < Len(courseRows)
    /\ SelectedRow.id = lastJumpRowId
    /\ SelectedRow.kind = "content-item"
    /\ Cardinality(AncestorIds(allCourseRows, lastJumpRowId)) = 2
    /\ pendingCourseJumpRowId = NoRowId

\* C5 as claimed: after a jump request the pending-jump marker is eventually
\* cleared.  Once nothing is outstanding (no request in flight, no update
\* waiting for a render) only a further user event can change the state, so
\* the marker has to be cleared by then.
C5_PendingJumpCleared ==
    NothingOutstanding => pendingCourseJumpRowId = NoRowId

\* C5 as the code has it: a marker stays set exactly while its target id is
\* absent from the flattened rows, and it is the marker of the previous state
\* or of the jump just committed; a jump whose target is absent sets no
\* error and leaves selectedIndex where it was (or on the last row, when the
\* rows shrank below it); a marker is cleared only by a flatten that has the
\* target (the selection moves to it), by a later jump that resolves, or by
\* opening a course from the finder.
C5_PendingJumpWaitsForTarget ==
    [][ /\ pendingCourseJumpRowId' # NoRowId
           => /\ ~HasRowId(courseRows', pendingCourseJumpRowId')
              /\ pendingCourseJumpRowId' \in {pendingCourseJumpRowId, lastJumpRowId'}
        /\ (courseContentFinderOpen /\ lastJumpRowId' # NoRowId
                /\ pendingCourseJumpRowId' # NoRowId)
           => /\ coursePageError' = Base.coursePageError
              /\ courseSelectedIndex' = Min(courseSelectedIndex, Len(courseRows') - 1)
        /\ (pendingCourseJumpRowId # NoRowId /\ pendingCourseJumpRowId' = NoRowId)
           => \/ courseRows'[courseSelectedIndex' + 1].id = pendingCourseJumpRowId
              \/ lastJumpRowId' # NoRowId
              \/ /\ courseFinderOpen /\ ~courseFinderOpen'
                 /\ viewMode' = "course" /\ courseSelectedIndex' = 0
      ]_vars

\* A marker whose target is not in the rows has outlived the step that set
\* it, with nothing outstanding and no error shown.
C5_Witness ==
    /\ pendingCourseJumpRowId # NoRowId
    /\ lastJumpRowId = NoRowId
    /\ ~HasRowId(courseRows, pendingCourseJumpRowId)
    /\ NothingOutstanding
    /\ coursePageError = NoError

-----------------------------------------------------------------------------
(* Properties of the flattener (checked under FlattenSpec)                 *)

RowsWithId(rows, id) == {j \in DOMAIN rows : rows[j].id = id}

ChildRows(rows, parentId, kinds) ==
    LET IsChild(r) == r.parentId = parentId /\ r.kind \in kinds
    IN  SelectSeq(rows, IsChild)

SectionRowsOf(rows) ==
    LET IsSection(r) == r.kind = "section"
    IN  SelectSeq(rows, IsSection)

IsLabelModule(module) == NormalizeType(module.modname) = TypeLabel

HasLabelActivity(sections) ==
    \E si \in DOMAIN sections :
        \E mi \in DOMAIN sections[si].modules : IsLabelModule(sections[si].modules[mi])

\* The row id the unfiltered flatten `rows` of `sections` gives each entity.
\* The p-th section row belongs to the p-th section, the q-th activity or
\* label row under it to its q-th activity, the k-th content-item row under
\* an activity row to that activity's k-th content item.
SectionIdMap(sections, rows) ==
    {<<sections[p].id, SectionRowsOf(rows)[p].id>> : p \in DOMAIN sections}

ModuleIdMap(sections, rows) ==
    UNION { LET kids == ChildRows(rows, SectionRowsOf(rows)[p].id, {"module", "label"})
            IN  {<<sections[p].id, sections[p].modules[q].id, kids[q].id>> :
                    q \in DOMAIN sections[p].modules}
          : p \in DOMAIN sections }

ContentIdMap(sections, rows) ==
    UNION { LET kids == ChildRows(rows, SectionRowsOf(rows)[p].id, {"module", "label"})
            IN  UNION { LET items == ChildRows(rows, kids[q].id, {"content-item"})
                        IN  {<<sections[p].id, sections[p].modules[q].id,
                               sections[p].modules[q].contents[k], items[k].id>> :
                                k \in DOMAIN items}
                      : q \in DOMAIN sections[p].modules }
          : p \in DOMAIN sections }

\* The last step reordered sections, activities or content items.
Reordered == fPrevSections # fSections

\* C6: every row other than a section row and the depth-0 "empty" placeholder
\* has a parentId that is the id of exactly one row of the output, and that row
\* comes earlier in the sequence.
C6_NoOrphanRows ==
    \A i \in DOMAIN fRows :
        \/ fRows[i].kind = "section"
        \/ fRows[i].id = "empty" /\ fRows[i].depth = 0
        \/ /\ fRows[i].parentId # NoParent
           /\ Cardinality(RowsWithId(fRows, fRows[i].parentId)) = 1
           /\ \A j \in RowsWithId(fRows, fRows[i].parentId) : j < i

\* A collapsed activity next to an expanded one: rows of depth 2 are emitted
\* while others are held back.
C6_Witness ==
    /\ \E i \in DOMAIN fRows : fRows[i].depth = 2
    /\ \E i \in DOMAIN fRows : fRows[i].kind = "module" /\ ~fRows[i].expanded
    /\ Len(fRows) < Len(fAllRows)

\* C7: no row has a parent in the collapsed set; the collapsible rows are the
\* section and activity rows and each is expanded exactly when its id is not
\* collapsed; a collapsed section is followed directly by the next section (it
\* contributes one row), so a tree whose only section is collapsed flattens to
\* one row with expanded = FALSE.
C7_CollapseHidesChildren ==
    /\ \A i \in DOMAIN fRows :
        /\ fRows[i].parentId \notin fCollapsed
        /\ fRows[i].collapsible = (fRows[i].kind \in {"section", "module"})
        /\ fRows[i].collapsible => (fRows[i].expanded = (fRows[i].id \notin fCollapsed))
        /\ (fRows[i].kind = "section" /\ fRows[i].id \in fCollapsed /\ i < Len(fRows))
               => fRows[i + 1].kind = "section"
    /\ (Len(fSections) = 1 /\ CourseSectionNodeId(fSections[1].id) \in fCollapsed)
           => (Len(fRows) = 1 /\ ~fRows[1].expanded)

\* The only section, holding activities, is collapsed.
C7_Witness ==
    /\ Len(fSections) = 1
    /\ Len(fSections[1].modules) = 2
    /\ CourseSectionNodeId(fSections[1].id) \in fCollapsed
    /\ Len(fRows) = 1

\* C8 as stated: a snapshot holding the same sections, activities and content
\* items in another order gives every entity the row id it had before.
C8_AllIdsSurviveReordering ==
    Reordered =>
        /\ SectionIdMap(fSections, fAllRows)
               = SectionIdMap(fPrevSections, BuildCourseTreeRows(fPrevSections, {}))
        /\ ModuleIdMap(fSections, fAllRows)
               = ModuleIdMap(fPrevSections, BuildCourseTreeRows(fPrevSections, {}))
        /\ ContentIdMap(fSections, fAllRows)
               = ContentIdMap(fPrevSections, BuildCourseTreeRows(fPrevSections, {}))

\* C8 as the code has it: reordering keeps the row id of every section and
\* of every activity (label or not); the id of a content-item row is made of
\* the ids of its section and activity and of the item's 0-based position in
\* the activity's content list.
C8_StructuralIdsSurviveReordering ==
    /\ Reordered =>
        /\ SectionIdMap(fSections, fAllRows)
               = SectionIdMap(fPrevSections, BuildCourseTreeRows(fPrevSections, {}))
        /\ ModuleIdMap(fSections, fAllRows)
               = ModuleIdMap(fPrevSections, BuildCourseTreeRows(fPrevSections, {}))
    /\ \A si \in DOMAIN fSections :
        \A mi \in DOMAIN fSections[si].modules :
            \A k \in DOMAIN fSections[si].modules[mi].contents :
                LET sid == fSections[si].id
                    mid == fSections[si].modules[mi].id
                IN  <<sid, mid, fSections[si].modules[mi].contents[k],
                      "content:" \o ToString(sid) \o ":" \o ToString(mid) \o ":"
                          \o ToString(k - 1)>>
                        \in ContentIdMap(fSections, fAllRows)
                    \/ IsLabelModule(fSections[si].modules[mi])

\* Two sections holding activities were swapped.
C8_Witness ==
    /\ Reordered
    /\ Len(fSections) = 2
    /\ fSections[1].id = fPrevSections[2].id
    /\ ModuleIdMap(fSections, fAllRows) # {}

\* C9: the default collapsed ids are exactly the ids of the section rows and of
\* the activity rows of the unfiltered tree; no label row id is among them.
C9_DefaultCollapsePolicy ==
    /\ ToCollapsedSet(fDefaultIds)
           = {fAllRows[i].id : i \in {j \in DOMAIN fAllRows :
                                         fAllRows[j].kind \in {"section", "module"}}}
    /\ \A i \in DOMAIN fAllRows :
           fAllRows[i].kind = "label" => fAllRows[i].id \notin ToCollapsedSet(fDefaultIds)

\* A section holding a label (whose type tag needs normalizing) and an
\* activity.
C9_Witness ==
    /\ \E i \in DOMAIN fAllRows : fAllRows[i].kind = "label"
    /\ \E si \in DOMAIN fSections :
           \E mi \in DOMAIN fSections[si].modules :
               /\ IsLabelModule(fSections[si].modules[mi])
               /\ fSections[si].modules[mi].modname # TypeLabel
    /\ Len(fDefaultIds) >= 2

\* C10 as stated: flattening a tree that holds labels with the default
\* collapsed set shows label rows.
C10_LabelsVisibleByDefault ==
    (fCollapsed = ToCollapsedSet(fDefaultIds) /\ HasLabelActivity(fSections))
        => \E i \in DOMAIN fRows : fRows[i].kind = "label"

\* C10 as the code has it: with the default collapsed set the output is one
\* collapsed section row per section and nothing else (no label row); a label
\* row is in the output exactly when its section is not collapsed, whatever
\* else is collapsed (labels themselves are never collapsed by default).
C10_LabelsBehindCollapsedSections ==
    /\ (fCollapsed = ToCollapsedSet(fDefaultIds) /\ fSections # <<>>)
           => /\ Len(fRows) = Len(fSections)
              /\ \A i \in DOMAIN fRows :
                     fRows[i].kind = "section" /\ ~fRows[i].expanded
    /\ \A si \in DOMAIN fSections :
        \A mi \in DOMAIN fSections[si].modules :
            IsLabelModule(fSections[si].modules[mi]) =>
                ((RowsWithId(fRows, LabelNodeId(fSections[si].id,
                                                fSections[si].modules[mi].id)) # {})
                    = (CourseSectionNodeId(fSections[si].id) \notin fCollapsed))

\* The default collapsed set applied to a tree that holds a label.
C10_Witness ==
    /\ HasLabelActivity(fSections)
    /\ fCollapsed = ToCollapsedSet(fDefaultIds)
    /\ Len(fRows) = Len(fSections)

-----------------------------------------------------------------------------
(* Properties of the key handlers and of the overlays (checked under Spec) *)

\* The sections of a course in the next state, <<>> while it has none.
SectionsAfter(courseId) ==
    IF courseSectionsById'[courseId].present
    THEN courseSectionsById'[courseId].sections
    ELSE <<>>

\* C12: a step that commits a course of the course finder.  The handler sets
\* the selected index and the scroll offset to 0, clears the pending jump,
\* closes both finders and the assignment modal, sets the pending-init marker
\* to the committed course and sets the collapsed ids to the default policy
\* of the sections the handler sees for that course (of no sections when it
\* sees none).  Once the render and its effects have settled, the selected
\* index and the scroll offset are 0, no jump is pending, nothing is open, the
\* collapsed ids are the default policy of the sections then stored for the
\* course, and the marker still names the course exactly while the course has
\* no sections.
C12_CourseSwitchReset ==
    [][ApplyCourse =>
          LET courseId == activeCourseId'
              a == OpenCourseFromFinder(State, Base, courseId)
          IN  /\ a.courseSelectedIndex = 0
              /\ a.courseScrollOffset = 0
              /\ a.pendingCourseJumpRowId = NoRowId
              /\ ~a.courseFinderOpen
              /\ ~a.courseContentFinderOpen
              /\ ~a.assignmentModalOpen
              /\ a.pendingCourseTreeInitCourseId = courseId
              /\ a.collapsedCourseNodeIds =
                     BuildDefaultCollapsedNodeIds(
                         IF courseSectionsById[courseId].present
                         THEN courseSectionsById[courseId].sections
                         ELSE <<>>)
              /\ courseSelectedIndex' = 0
              /\ courseScrollOffset' = 0
              /\ pendingCourseJumpRowId' = NoRowId
              /\ ~courseFinderOpen'
              /\ ~courseContentFinderOpen'
              /\ ~assignmentModalOpen'
              /\ collapsedCourseNodeIds' =
                     BuildDefaultCollapsedNodeIds(SectionsAfter(courseId))
              /\ pendingCourseTreeInitCourseId' =
                     (IF courseSectionsById'[courseId].present THEN NoCourse
                      ELSE courseId)]_vars

\* The course finder commits course 2, whose sections are stored, while
\* course 1 is shown with a row below the first selected and the list
\* scrolled; the step replaces the collapsed ids by course 2's default.
C12_Witness ==
    /\ courseFinderOpen
    /\ activeCourseId = 1
    /\ 2 \in Range(courses)
    /\ courseSectionsById[2].present
    /\ courseSelectedIndex > 0
    /\ courseScrollOffset > 0
    /\ LET n == After(OpenCourseFromFinder(State, Base, 2))
       IN  /\ n.activeCourseId = 2
           /\ n.collapsedCourseNodeIds # collapsedCourseNodeIds
           /\ n.collapsedCourseNodeIds # <<>>
           /\ n.courseSelectedIndex = 0

CollapsedSet == ToCollapsedSet(collapsedCourseNodeIds)

\* The sections of the active course as the last render saw them.
RenderedSections == ActiveSections(State)

\* C13: an expand step on a selected collapsible row that is collapsed removes
\* exactly that row's id from the collapsed ids, and a collapse step on a
\* selected collapsible row that is expanded adds exactly its id; in both
\* steps no other id changes membership.  When the step re-flattens the same
\* sections (no completed fetch replaces them in the same render), the
\* selected index stays and the row at the selected index of the new flatten
\* carries the same id.
C13_ToggleFrame ==
    [][/\ (Expand /\ SelectedRow.collapsible /\ ~SelectedRow.expanded) =>
              /\ SelectedRow.id \in CollapsedSet
              /\ CollapsedSet' = CollapsedSet \ {SelectedRow.id}
              /\ RenderedSections' = RenderedSections =>
                     /\ courseSelectedIndex' = courseSelectedIndex
                     /\ SelectedRow'.id = SelectedRow.id
                     /\ SelectedRow'.expanded
       /\ (Collapse /\ SelectedRow.collapsible /\ SelectedRow.expanded) =>
              /\ SelectedRow.id \notin CollapsedSet
              /\ CollapsedSet' = CollapsedSet \cup {SelectedRow.id}
              /\ RenderedSections' = RenderedSections =>
                     /\ courseSelectedIndex' = courseSelectedIndex
                     /\ SelectedRow'.id = SelectedRow.id
                     /\ ~SelectedRow'.expanded]_vars

\* No jump is pending, or the rows of the next flatten do not hold its target.
NoJumpResolves ==
    \/ pendingCourseJumpRowId = NoRowId
    \/ FindRowIndex(courseRows', pendingCourseJumpRowId) = -1

\* C13 (amended): as C13_ToggleFrame for the collapsed ids.  When the step
\* re-flattens the same sections, the selected index stays and the selected
\* row keeps its id, unless the step is an expand, a jump is pending and the
\* new flatten holds its target; then the selection moves to the target and
\* the jump is resolved.
C13_ToggleFrameUnlessJumpResolves ==
    [][/\ (Expand /\ SelectedRow.collapsible /\ ~SelectedRow.expanded) =>
              /\ SelectedRow.id \in CollapsedSet
              /\ CollapsedSet' = CollapsedSet \ {SelectedRow.id}
              /\ (RenderedSections' = RenderedSections /\ NoJumpResolves) =>
                     /\ courseSelectedIndex' = courseSelectedIndex
                     /\ SelectedRow'.id = SelectedRow.id
                     /\ SelectedRow'.expanded
              /\ (RenderedSections' = RenderedSections /\ ~NoJumpResolves) =>
                     /\ SelectedRow'.id = pendingCourseJumpRowId
                     /\ pendingCourseJumpRowId' = NoRowId
       /\ (Collapse /\ SelectedRow.collapsible /\ SelectedRow.expanded) =>
              /\ SelectedRow.id \notin CollapsedSet
              /\ CollapsedSet' = CollapsedSet \cup {SelectedRow.id}
              /\ RenderedSections' = RenderedSections =>
                     /\ courseSelectedIndex' = courseSelectedIndex
                     /\ SelectedRow'.id = SelectedRow.id
                     /\ ~SelectedRow'.expanded]_vars

\* The expand key is pressed on a collapsed section while another id is
\* collapsed as well; the step shows the rows below the section, keeps the
\* other id and leaves the selection on the section.
C13_Witness ==
    /\ InputReachesDashboard
    /\ viewMode = "course"
    /\ queuedUpdates = <<>>
    /\ pendingCourseJumpRowId = NoRowId
    /\ SelectedRow.collapsible
    /\ ~SelectedRow.expanded
    /\ CollapsedSet \ {SelectedRow.id} # {}
    /\ LET n == After(ExpandSelectedRow(State, Base))
       IN  /\ Len(n.courseRows) > Len(courseRows)
           /\ ToCollapsedSet(n.collapsedCourseNodeIds) = CollapsedSet \ {SelectedRow.id}
           /\ n.courseRows[n.courseSelectedIndex + 1].id = SelectedRow.id

\* The 0-based index of the first row of the list that names the selected row
\* as its parent, -1 when no row does.
FirstRowBelowSelected ==
    LET children == {i \in DOMAIN courseRows : courseRows[i].parentId = SelectedRow.id}
    IN  IF children = {} THEN -1
        ELSE (CHOOSE i \in children : \A j \in children : i <= j) - 1

\* C14: an expand step on a selected collapsible row that is expanded, which
\* re-flattens the same sections, moves the selected index to the first row
\* whose parent is the selected row when there is one; when there is none, or
\* when the selected row is not collapsible, the selected index stays.  The
\* collapsed ids are unchanged in each of these cases.
C14_ExpandWhenExpanded ==
    [][(Expand /\ RenderedSections' = RenderedSections) =>
          /\ (SelectedRow.collapsible /\ SelectedRow.expanded
                  /\ FirstRowBelowSelected # -1) =>
                 /\ courseSelectedIndex' = FirstRowBelowSelected
                 /\ collapsedCourseNodeIds' = collapsedCourseNodeIds
          /\ (SelectedRow.collapsible /\ SelectedRow.expanded
                  /\ FirstRowBelowSelected = -1) =>
                 /\ courseSelectedIndex' = courseSelectedIndex
                 /\ collapsedCourseNodeIds' = collapsedCourseNodeIds
          /\ ~SelectedRow.collapsible =>
                 /\ courseSelectedIndex' = courseSelectedIndex
                 /\ collapsedCourseNodeIds' = collapsedCourseNodeIds]_vars

\* The expand key is pressed on an expanded activity that is not the first row
\* and has several rows below it; the step selects the first of them.
C14_Witness ==
    /\ InputReachesDashboard
    /\ viewMode = "course"
    /\ queuedUpdates = <<>>
    /\ courseSelectedIndex > 0
    /\ SelectedRow.collapsible
    /\ SelectedRow.expanded
    /\ Cardinality({i \in DOMAIN courseRows :
                        courseRows[i].parentId = SelectedRow.id}) > 1
    /\ LET n == After(ExpandSelectedRow(State, Base))
       IN  /\ n.courseSelectedIndex = courseSelectedIndex + 1
           /\ n.courseRows[n.courseSelectedIndex + 1].parentId = SelectedRow.id
           /\ n.collapsedCourseNodeIds = collapsedCourseNodeIds

\* The rows of the list that carry the id the selected row names as parent.
ParentRowsOfSelected ==
    {i \in DOMAIN courseRows :
        SelectedRow.parentId # NoParent /\ courseRows[i].id = SelectedRow.parentId}

\* C15: a collapse step on a selected row that is not collapsible or is
\* collapsed, which re-flattens the same sections, moves the selected index
\* to the row whose id is the selected row's parentId when the list holds
\* such a row, and leaves the selected index alone otherwise; the collapsed
\* ids are unchanged in both cases.
C15_CollapseWhenCollapsed ==
    [][(/\ Collapse
        /\ RenderedSections' = RenderedSections
        /\ ~(SelectedRow.collapsible /\ SelectedRow.expanded)) =>
          /\ collapsedCourseNodeIds' = collapsedCourseNodeIds
          /\ ParentRowsOfSelected # {} =>
                 \E i \in ParentRowsOfSelected : courseSelectedIndex' = i - 1
          /\ ParentRowsOfSelected = {} =>
                 courseSelectedIndex' = courseSelectedIndex]_vars

\* The collapse key is pressed on a content row, below its activity, which is
\* not the first row; the step selects the activity.
C15_Witness ==
    /\ InputReachesDashboard
    /\ viewMode = "course"
    /\ queuedUpdates = <<>>
    /\ ~SelectedRow.collapsible
    /\ SelectedRow.depth = 2
    /\ LET n == After(CollapseSelectedRow(State, Base))
       IN  /\ n.courseSelectedIndex < courseSelectedIndex - 1
           /\ n.courseSelectedIndex > 0
           /\ n.courseRows[n.courseSelectedIndex + 1].id = SelectedRow.parentId
           /\ n.collapsedCourseNodeIds = collapsedCourseNodeIds

\* C16: a step that moves the selection by delta (one row or one page, up
\* or down) and re-flattens the same sections leaves the selected index at
\* selectedIndex + delta limited to 0 .. rows.length - 1; Home leaves it at 0
\* and End at rows.length - 1.  The collapsed ids are unchanged in each case.
C16_MoveSelectionClamped ==
    [][RenderedSections' = RenderedSections =>
          /\ \A delta \in MoveDeltas :
                 MoveSelectionBy(delta) =>
                     /\ courseSelectedIndex' =
                            Max(0, Min(courseSelectedIndex + delta, Len(courseRows) - 1))
                     /\ collapsedCourseNodeIds' = collapsedCourseNodeIds
          /\ Home =>
                 /\ courseSelectedIndex' = 0
                 /\ collapsedCourseNodeIds' = collapsedCourseNodeIds
          /\ End =>
                 /\ courseSelectedIndex' = Len(courseRows) - 1
                 /\ collapsedCourseNodeIds' = collapsedCourseNodeIds]_vars

\* Page-down is pressed less than a page above the last of four or more
\* rows, with ids collapsed; the step selects the last row.
C16_Witness ==
    /\ InputReachesDashboard
    /\ viewMode = "course"
    /\ queuedUpdates = <<>>
    /\ Len(courseRows) >= 4
    /\ collapsedCourseNodeIds # <<>>
    /\ courseSelectedIndex < Len(courseRows) - 1
    /\ courseSelectedIndex + PageJump > Len(courseRows) - 1
    /\ LET n == After(MoveCourseSelection(State, Base, PageJump))
       IN  /\ n.courseSelectedIndex = Len(courseRows) - 1
           /\ n.courseRows = courseRows
           /\ n.collapsedCourseNodeIds = collapsedCourseNodeIds

Abs(n) == IF n < 0 THEN 0 - n ELSE n

\* The offsets that show row `selectedIndex` of `rowCount` rows.
OffsetsShowing(rowCount, selectedIndex) ==
    {o \in 0..Max(0, rowCount - ContentRows) :
        o <= selectedIndex /\ selectedIndex < o + ContentRows}

\* The offset the claim names for a previous offset, a row count and a
\* selected index.
MinimalScrollOffset(previous, rowCount, selectedIndex) ==
    LET limited == Min(previous, Max(0, rowCount - ContentRows))
    IN  IF limited <= selectedIndex /\ selectedIndex < limited + ContentRows
        THEN limited
        ELSE IF selectedIndex < limited THEN selectedIndex
        ELSE selectedIndex - ContentRows + 1

\* A step that sets the scroll offset to 0 before the reconciliation: a
\* course is opened, or the pending-init marker is consumed.
ScrollReset ==
    \/ ApplyCourse
    \/ pendingCourseTreeInitCourseId' # pendingCourseTreeInitCourseId

\* C17: in every step that does not reset the scroll offset, the settled
\* offset is the previous offset limited to the maximum offset when the
\* selected row is inside the window that offset gives, the selected index
\* when the row is above it and selected index - visible row count + 1 when
\* it is below; no offset that shows the selected row is closer to the
\* previous offset.
C17_MinimalScrollMovement ==
    [][~ScrollReset =>
          /\ courseScrollOffset' =
                 MinimalScrollOffset(courseScrollOffset, Len(courseRows'),
                                     courseSelectedIndex')
          /\ \A o \in OffsetsShowing(Len(courseRows'), courseSelectedIndex') :
                 Abs(courseScrollOffset' - courseScrollOffset)
                     <= Abs(o - courseScrollOffset)]_vars

\* End is pressed with nothing scrolled and more rows than the window holds;
\* the step scrolls just far enough to show the last row.
C17_Witness ==
    /\ InputReachesDashboard
    /\ viewMode = "course"
    /\ queuedUpdates = <<>>
    /\ courseScrollOffset = 0
    /\ Len(courseRows) > ContentRows
    /\ LET n == After([Base EXCEPT !.courseSelectedIndex =
                                       MaxCourseRowIndex(Len(courseRows))])
       IN  /\ n.courseSelectedIndex = Len(courseRows) - 1
           /\ n.courseScrollOffset = n.courseSelectedIndex - ContentRows + 1
           /\ n.courseScrollOffset > 0

-----------------------------------------------------------------------------
(* Properties of fuzzyScore (checked under FuzzySpec)                      *)

\* q is an ordered subsequence of c: its characters occur in c in order.
IsSubsequence(q, c) ==
    \E f \in [DOMAIN q -> DOMAIN c] :
        /\ \A i, j \in DOMAIN q : i < j => f[i] < f[j]
        /\ \A i \in DOMAIN q : c[f[i]] = q[i]

\* C19: fuzzyScore(q, c) is a number exactly when lowercase(q) is an ordered
\* subsequence of lowercase(c) and NO_MATCH otherwise, however many
\* characters the walk matched; the empty query gives the score 0 for every
\* candidate, and a non-empty query gives NO_MATCH for the empty candidate.
C19_SubsequenceMatching ==
    /\ fzScore.matched <=>
           IsSubsequence(ToLowerCase(fzQuery), ToLowerCase(fzCandidate))
    /\ ~fzScore.matched => fzScore = NoMatch
    /\ fzQuery = <<>> => fzScore = [matched |-> TRUE, score |-> 0]
    /\ (fzQuery # <<>> /\ fzCandidate = <<>>) => fzScore = NoMatch

\* The walk matched the first character of a two-character query, in the
\* other case, and not the second: NO_MATCH.
C19_Witness ==
    /\ Len(fzQuery) = 2
    /\ Len(fzMatches) = 1
    /\ fzCandidate[fzMatches[1].idx + 1] # fzQuery[1]
    /\ fzScore = NoMatch

\* C20: a matched character gets the +6 exactly when a previous query
\* character was matched at the position one less than its own; the first
\* matched character, wherever it is, gets none.
C20_ContiguityBonus ==
    \A k \in DOMAIN fzMatches :
        fzMatches[k].contiguous <=>
            (k > 1 /\ fzMatches[k - 1].idx = fzMatches[k].idx - 1)

\* C21: for a non-empty query, a candidate that matches and the same
\* candidate followed by a non-empty suffix, the longer candidate matches too
\* and its score is strictly smaller than the shorter one's.
C21_ShorterCandidatesWin ==
    fzQuery # <<>> =>
        \A n \in 1..(Len(fzCandidate) - 1) :
            FuzzyScore(fzQuery, SubSeq(fzCandidate, 1, n)).matched =>
                /\ fzScore.matched
                /\ FuzzyScore(fzQuery, SubSeq(fzCandidate, 1, n)).score > fzScore.score

-----------------------------------------------------------------------------
(* Properties of the finder overlays (checked under FinderSpec)            *)

\* What the course page keeps of the navigation.
NavigationState ==
    <<CollapsedSet, courseSelectedIndex, courseScrollOffset, pendingCourseJumpRowId>>

\* A key an open finder handles without calling the dashboard: typing,
\* moving the overlay selection, cycling the search target.
FinderOwnKey ==
    \/ CourseFinderType
    \/ CourseFinderMove
    \/ CourseFinderHome
    \/ CourseFinderEnd
    \/ ContentFinderType
    \/ ContentFinderMove
    \/ ContentFinderHome
    \/ ContentFinderEnd
    \/ ContentFinderCycleTarget

\* A finder closes without committing a result: Esc, or Enter when the
\* result list is empty.
FinderClosesUncommitted ==
    \/ CloseCourseFinder
    \/ CloseCourseContentFinder
    \/ CourseFinderSubmit /\ CourseFinderResults(State, courseFinder) = <<>>
    \/ ContentFinderSubmit /\ ContentFinderResults(State, contentFinder) = <<>>

\* C18: while a finder overlay is open, typing, moving the overlay selection
\* and cycling the search target leave the course page's CollapsedSet,
\* selectedIndex, scrollOffset and pending-jump marker unchanged, and so does
\* closing the finder without a commit (Esc, or Enter on an empty result
\* list) when the render of the close shows the sections the last render
\* showed.
C18_FindersOnlyRead ==
    [][(\/ FinderOwnKey
        \/ FinderClosesUncommitted /\ RenderedSections' = RenderedSections)
           => NavigationState' = NavigationState]_vars

\* The content finder is open on a course page whose selection is below the
\* first row and which has collapsed rows; its target was cycled and its
\* draft matches no row, so that Enter closes it; the close leaves the
\* navigation as it is.
C18_Witness ==
    /\ ContentFinderMounted(State)
    /\ queuedUpdates = <<>>
    /\ courseSelectedIndex > 0
    /\ CollapsedSet # {}
    /\ contentFinder.draft # <<>>
    /\ contentFinder.targetIndex # 0
    /\ BoundedIndex(contentFinder, ContentFinderResults(State, contentFinder)) = -1
    /\ LET n == After([Base EXCEPT !.courseContentFinderOpen = FALSE])
       IN  /\ ~n.courseContentFinderOpen
           /\ ToCollapsedSet(n.collapsedCourseNodeIds) = CollapsedSet
           /\ n.courseSelectedIndex = courseSelectedIndex
           /\ n.courseScrollOffset = courseScrollOffset
           /\ n.pendingCourseJumpRowId = pendingCourseJumpRowId

-----------------------------------------------------------------------------
(* Properties of the two rankers (checked under RankSpec)                  *)

\* The five scored fields of a course with their weights in hundredths.
ScoredFields(courseId) ==
    { <<CourseRecord(courseId).shortname, 120>>,
      <<CourseRecord(courseId).fullname, 100>>,
      <<CourseRecord(courseId).displayname, 95>>,
      <<CourseRecord(courseId).categoryname, 70>>,
      <<CourseRecord(courseId).summary, 35>> }

\* The weighted scores of the fields of the course that match the query.
FieldScores(courseId, query) ==
    { FuzzyScore(query, field[1]).score * field[2] :
        field \in {f \in ScoredFields(courseId) : FuzzyScore(query, f[1]).matched} }

MatchesCourse(courseId, query) == FieldScores(courseId, query) # {}

\* The greatest of the weighted scores of the matching fields.
CourseScore(courseId, query) ==
    CHOOSE best \in FieldScores(courseId, query) :
        \A score \in FieldScores(courseId, query) : score <= best

Occurrences(seq, x) == Cardinality({i \in DOMAIN seq : seq[i] = x})

\* A text without regard to case: the primary weights of its characters.
Folded(text) == [i \in DOMAIN text |-> CollationRank(text[i])]

\* Lexicographic order: a is a prefix of b, or smaller where they first differ.
LexLeq(a, b) ==
    \/ Len(a) <= Len(b) /\ \A i \in DOMAIN a : a[i] = b[i]
    \/ \E i \in 1..Min(Len(a), Len(b)) :
           /\ a[i] < b[i]
           /\ \A j \in 1..(i - 1) : a[j] = b[j]

\* C22: for every non-empty query and course list, the result holds exactly
\* the courses of the list of which one of the five scored fields matches the
\* query, each once, and no other course.
C22_ResultSet ==
    rkQuery # <<>> =>
        \A courseId \in CatalogueIds :
            Occurrences(rkCourseResult, courseId) =
                IF courseId \in Range(rkCourses) /\ MatchesCourse(courseId, rkQuery)
                THEN 1 ELSE 0

\* C22, amended: for every query whose trimmed form is not empty, the result
\* holds exactly the courses of the list of which one of the five scored
\* fields matches the trimmed query, each once, and no other course.
C22_ResultSetOfTrimmedQuery ==
    Trim(rkQuery) # <<>> =>
        \A courseId \in CatalogueIds :
            Occurrences(rkCourseResult, courseId) =
                IF courseId \in Range(rkCourses) /\ MatchesCourse(courseId, Trim(rkQuery))
                THEN 1 ELSE 0

\* A query with white space around a letter: one course of the list is kept
\* although no field of it matches the query as typed, another is dropped.
C22_Witness ==
    /\ Trim(rkQuery) # <<>>
    /\ Trim(rkQuery) # rkQuery
    /\ \E kept, dropped \in Range(rkCourses) :
           /\ Occurrences(rkCourseResult, kept) = 1
           /\ ~MatchesCourse(kept, rkQuery)
           /\ Occurrences(rkCourseResult, dropped) = 0

\* C23: the courses of the result are in non-increasing order of their
\* score, the greatest weighted score of their matching fields, and courses
\* of equal score are in the order of their full names without regard to
\* case.
C23_RankingOrder ==
    Trim(rkQuery) # <<>> =>
        \A i, j \in DOMAIN rkCourseResult :
            i < j =>
                /\ CourseScore(rkCourseResult[i], Trim(rkQuery))
                       >= CourseScore(rkCourseResult[j], Trim(rkQuery))
                /\ CourseScore(rkCourseResult[i], Trim(rkQuery))
                       = CourseScore(rkCourseResult[j], Trim(rkQuery))
                   => LexLeq(Folded(CourseRecord(rkCourseResult[i]).fullname),
                             Folded(CourseRecord(rkCourseResult[j]).fullname))

\* Two courses of equal score come out in the reverse of their input order,
\* the one with the lower-case name before the one with the upper-case name;
\* the second has several matching fields, whose sum differs from their
\* maximum; a third course has a smaller score and comes last.
C23_Witness ==
    /\ Trim(rkQuery) # <<>>
    /\ Len(rkCourseResult) = 3
    /\ CourseScore(rkCourseResult[1], Trim(rkQuery))
           = CourseScore(rkCourseResult[2], Trim(rkQuery))
    /\ CourseScore(rkCourseResult[2], Trim(rkQuery))
           > CourseScore(rkCourseResult[3], Trim(rkQuery))
    /\ Cardinality(FieldScores(rkCourseResult[2], Trim(rkQuery))) > 1
    /\ CourseRecord(rkCourseResult[1]).fullname[1] \in Range(LowerChars)
    /\ CourseRecord(rkCourseResult[2]).fullname[1] \in Range(UpperChars)
    /\ \E a, b \in DOMAIN rkCourses :
           /\ a < b
           /\ rkCourses[a] = rkCourseResult[2]
           /\ rkCourses[b] = rkCourseResult[1]

\* C24: with the empty query the course result is the course list, same
\* elements in the same order, and the row result is the row list in its
\* order without the placeholder row.
C24_EmptyQueryIdentity ==
    rkQuery = <<>> =>
        /\ rkCourseResult = rkCourses
        /\ rkRowResult = SelectSeq(rkRows, LAMBDA row : row # EmptyRow)

\* The empty query on two courses that are not in the order of their names
\* and on a row list that holds the placeholder.
C24_Witness ==
    /\ rkQuery = <<>>
    /\ Len(rkCourses) = 2
    /\ ~LexLeq(Folded(CourseRecord(rkCourses[1]).fullname),
               Folded(CourseRecord(rkCourses[2]).fullname))
    /\ EmptyRow \in Range(rkRows)
    /\ rkRowResult = <<>>

\* C25: whatever the query and the row list, the row result never holds the
\* placeholder row of an empty course.
C25_PlaceholderNeverRanked ==
    \A i \in DOMAIN rkRowResult :
        /\ rkRowResult[i].id # "empty"
        /\ rkRowResult[i] # EmptyRow

\* The query is a subsequence of the placeholder's text, the placeholder is
\* in the row list and other rows are ranked.
C25_Witness ==
    /\ Trim(rkQuery) # <<>>
    /\ EmptyRow \in Range(rkRows)
    /\ FuzzyScore(Trim(rkQuery), Chars(EmptyRow.text)).matched
    /\ rkRowResult # <<>>

\* The score of a row: fuzzyScore of its text times the weight of its kind.
RowScore(row, query) ==
    FuzzyScore(query, Chars(row.text)).score * RowKindWeight(row.kind)

\* The orders a list can be handed over in.
InputOrders(seq) ==
    { [i \in DOMAIN seq |-> seq[order[i]]] :
        order \in {f \in [DOMAIN seq -> DOMAIN seq] :
                      \A i, j \in DOMAIN seq : f[i] = f[j] => i = j} }

KindPriority ==
    "section" :> 115 @@ "module" :> 110 @@ "label" :> 105 @@ "content-item" :> 100
    @@ "module-description" :> 85 @@ "module-url" :> 80 @@ "summary" :> 75

\* C27: of two rows of the result with the same text, the row whose kind has
\* the larger weight comes first, whatever the length of the text and the
\* place of the match.
C27_KindPriority ==
    Trim(rkQuery) # <<>> =>
        \A i, j \in DOMAIN rkRowResult :
            (/\ rkRowResult[i].text = rkRowResult[j].text
             /\ KindPriority[rkRowResult[i].kind] > KindPriority[rkRowResult[j].kind])
                => i < j

-----------------------------------------------------------------------------
(* Properties of the search targets (checked under FlattenSpec)            *)

\* The activities of the tree that are no labels.
Activities(sections) ==
    { <<sections[s].id, sections[s].modules[m]>> :
        <<s, m>> \in { <<s, m>> \in (DOMAIN sections) \X (1..MaxTreeNodes) :
                         /\ m \in DOMAIN sections[s].modules
                         /\ ~IsLabelModule(sections[s].modules[m]) } }

\* Their distinct normalized types.
ActivityTypes(sections) ==
    { NormalizeType(activity[2].modname) : activity \in Activities(sections) } \ {<<>>}

\* The rows of the activities of one type.
IsActivityRowOfType(sections, row, type) ==
    /\ row.kind = "module"
    /\ \E activity \in Activities(sections) :
           /\ row.id = CourseModuleNodeId(activity[1], activity[2].id)
           /\ NormalizeType(activity[2].modname) = type

\* C28: the targets built from the unfiltered rows of a flattened tree hold
\* one activity-type target for each distinct normalized type of the tree's
\* non-label activities and no other one; filtering by such a target gives the
\* activity rows of that type in their order, filtering by a row-kind target
\* the rows of that kind in their order, and the "all" target gives the rows
\* unchanged.
C28_TargetPreFilter ==
    /\ \A type \in ActivityTypes(fSections) :
           Cardinality({i \in DOMAIN BuildCourseContentTargets(fAllRows) :
                           /\ BuildCourseContentTargets(fAllRows)[i].mode = "module-type"
                           /\ BuildCourseContentTargets(fAllRows)[i].moduleType = type}) = 1
    /\ \A i \in DOMAIN BuildCourseContentTargets(fAllRows) :
           /\ BuildCourseContentTargets(fAllRows)[i].mode = "module-type" =>
                  /\ BuildCourseContentTargets(fAllRows)[i].moduleType
                         \in ActivityTypes(fSections)
                  /\ FilterRowsByTarget(fAllRows, BuildCourseContentTargets(fAllRows)[i])
                         = SelectSeq(fAllRows,
                               LAMBDA row : IsActivityRowOfType(fSections, row,
                                   BuildCourseContentTargets(fAllRows)[i].moduleType))
           /\ BuildCourseContentTargets(fAllRows)[i].mode = "row-kind" =>
                  FilterRowsByTarget(fAllRows, BuildCourseContentTargets(fAllRows)[i])
                      = SelectSeq(fAllRows,
                            LAMBDA row : row.kind
                                = BuildCourseContentTargets(fAllRows)[i].rowKind)
           /\ BuildCourseContentTargets(fAllRows)[i].mode = "all" =>
                  FilterRowsByTarget(fAllRows, BuildCourseContentTargets(fAllRows)[i])
                      = fAllRows
    /\ BuildCourseContentTargets(fAllRows)[1].mode = "all"

-----------------------------------------------------------------------------
(* Properties of a failed content fetch (checked under Spec)               *)

\* A fetchCourseContents call for the course starts in the step.
FetchStarts(courseId) == fetchesInFlight'[courseId] > fetchesInFlight[courseId]

\* The fetch of the course rejects in the step.
FetchFailsStep(courseId) ==
    /\ fetchesInFlight'[courseId] < fetchesInFlight[courseId]
    /\ queuedUpdates' = Append(queuedUpdates,
           [courseId |-> courseId, ok |-> FALSE, sections |-> <<>>])

\* A fetch of the course has failed and its state updates await the render.
FailureQueued(courseId) ==
    \E i \in DOMAIN queuedUpdates :
        queuedUpdates[i].courseId = courseId /\ ~queuedUpdates[i].ok

SuccessQueued(courseId) ==
    \E i \in DOMAIN queuedUpdates :
        queuedUpdates[i].courseId = courseId /\ queuedUpdates[i].ok

\* The refresh key reaches the dashboard while the page of the course is shown.
RefreshStep(courseId) ==
    /\ InputReachesDashboard
    /\ viewMode = "course"
    /\ activeCourseId = courseId

\* The course finder opens the course while no sections are stored for it.
OpenFromFinderStep(courseId) ==
    /\ courseFinderOpen
    /\ ~courseSectionsById[courseId].present
    /\ activeCourseId' = courseId
    /\ viewMode' = "course"

\* What a failed fetch does: the rejection stores nothing and starts no
\* fetch; the render of its updates alone shows the error text with the
\* loading flag cleared and starts no fetch; whatever step renders them, the
\* sections stored for the course stay as they are.
FailureEffect ==
    /\ \A courseId \in CourseIds :
           FetchFailsStep(courseId) =>
               /\ courseSectionsById' = courseSectionsById
               /\ \A other \in CourseIds : ~FetchStarts(other)
    /\ (Render /\ \A i \in DOMAIN queuedUpdates : ~queuedUpdates[i].ok) =>
           /\ coursePageError' # NoError
           /\ ~coursePageLoading'
           /\ courseSectionsById' = courseSectionsById
           /\ fetchesInFlight' = fetchesInFlight
    /\ \A courseId \in CourseIds :
           (FailureQueued(courseId) /\ ~SuccessQueued(courseId)) =>
               courseSectionsById'[courseId] = courseSectionsById[courseId]

\* C29: when the fetch of a course's content fails, the error text is set and
\* the loading flag is cleared, no sections are stored for the course and the
\* sections stored earlier are kept, no fetch is started by the failure, and
\* a fetch of the course that starts after the failure starts by an explicit
\* refresh.
C29_FetchFailure ==
    [][/\ FailureEffect
       /\ \A courseId \in CourseIds :
              (FailureQueued(courseId) /\ FetchStarts(courseId))
                  => RefreshStep(courseId)]_vars

\* C29, amended: as before, but a fetch of the course starts by one of two
\* commands of the user, the explicit refresh or opening the course from the
\* course finder while no sections are stored for it.
C29_FetchFailureUserCommand ==
    [][/\ FailureEffect
       /\ \A courseId \in CourseIds :
              FetchStarts(courseId)
                  => RefreshStep(courseId) \/ OpenFromFinderStep(courseId)]_vars

\* The error of a failed fetch is shown, the loading flag is cleared, the
\* sections stored for the shown course are still there and no fetch is under
\* way.
C29_Witness ==
    /\ viewMode = "course"
    /\ coursePageError # NoError
    /\ ~coursePageLoading
    /\ courseSectionsById[activeCourseId].present
    /\ courseSectionsById[activeCourseId].sections # <<>>
    /\ FetchCount = 0

-----------------------------------------------------------------------------
(* Properties of the input-capture count (checked under CaptureSpec)       *)

\* The acquired handles not yet released.
LiveHandles == {h \in DOMAIN handles : handles[h].calls = 0}

\* C30: after any sequence of acquire and release calls the capture count,
\* with the queued updates applied, is the number of acquired handles not yet
\* released, however often a handle was released; the count is never
\* negative; the blocked flag reported to the shell is true exactly when the
\* count is greater than 0; and once every overlay that acquired is closed or
\* unmounted, none of its handles is live, so that the flag is false when
\* the render has applied the updates and no other caller holds a handle.
C30_CaptureCount ==
    /\ ApplyCountUpdates(countUpdates, captureCount) = Cardinality(LiveHandles)
    /\ countUpdates = <<>> => captureCount = Cardinality(LiveHandles)
    /\ captureCount >= 0
    /\ blocked <=> captureCount > 0
    /\ \A k \in Consumers :
           ~(consumers[k].mounted /\ consumers[k].active) =>
               \A h \in LiveHandles : handles[h].holder # k
    /\ (/\ \A k \in Consumers : ~(consumers[k].mounted /\ consumers[k].active)
        /\ \A h \in LiveHandles : handles[h].holder # DirectHolder
        /\ countUpdates = <<>>)
           => ~blocked

\* A handle was released twice while two others are live; the render has
\* applied the updates and the shell is blocked.
C30_Witness ==
    /\ countUpdates = <<>>
    /\ \E h \in DOMAIN handles : handles[h].calls = 2
    /\ Cardinality(LiveHandles) = 2
    /\ captureCount = 2
    /\ blocked
    /\ \E k \in Consumers : \E h \in LiveHandles : handles[h].holder = k

\* Every overlay that acquired is closed or unmounted again and the flag is
\* back to false.
C30_WitnessReleased ==
    /\ countUpdates = <<>>
    /\ Len(handles) = MaxAcquires
    /\ \A h \in DOMAIN handles : handles[h].holder # DirectHolder
    /\ \A k \in Consumers : ~(consumers[k].mounted /\ consumers[k].active)
    /\ ~blocked

-----------------------------------------------------------------------------
(* Properties of the overlays and the shell (checked under ShellSpec)      *)

\* One of the course finder, the content finder and the assignment modal is
\* open.
OverlayOpen(d) ==
    d.courseFinderOpen \/ d.courseContentFinderOpen \/ d.assignmentModalOpen

\* The dashboard state with the three overlays closed.
OverlaysClosed(d) ==
    [d EXCEPT !.courseFinderOpen = FALSE,
              !.courseContentFinderOpen = FALSE,
              !.assignmentModalOpen = FALSE]

\* C31: while the course finder, the content finder or the assignment modal
\* is open, an Esc keystroke closes that overlay and leaves the view mode
\* unchanged, and no keystroke (q, l and ? among them) triggers quit, logout
\* or the settings modal; the view mode goes from the course page to the
\* dashboard only by an Esc keystroke with no overlay open, and Esc with no
\* overlay and no settings modal open on the course page does go back.
C31_OverlayInputExclusivity ==
    [][/\ (OverlayOpen(screen) /\ lastKey' = "escape") =>
              /\ screen' = OverlaysClosed(screen)
              /\ screen'.viewMode = screen.viewMode
       /\ OverlayOpen(screen) => shell' = shell
       /\ (screen.viewMode = "course" /\ screen'.viewMode = "dashboard") =>
              /\ lastKey' = "escape"
              /\ ~OverlayOpen(screen)
       /\ (/\ screen.viewMode = "course"
           /\ ~OverlayOpen(screen)
           /\ ~shell.settingsOpen
           /\ lastKey' = "escape"
           /\ vars' # vars) => screen'.viewMode = "dashboard"]_vars

\* The content finder is open on the course page after another overlay was
\* open before: Esc closes it and stays on the course page, and q, l and ?
\* leave the shell as it is.
C31_Witness ==
    /\ screen.viewMode = "course"
    /\ screen.courseContentFinderOpen
    /\ blocked
    /\ Len(handles) >= 2
    /\ ScreenAfterKey(screen, ~shell.settingsOpen, "escape", FALSE, FALSE)
           = [screen EXCEPT !.courseContentFinderOpen = FALSE]
    /\ \A key \in {"q", "l", "?"} : MainShellInput(shell, blocked, key) = shell

\* The overlays that are open: the settings modal of the shell and the three
\* of the dashboard.
OpenOverlays ==
    {o \in {"settings", "courseFinder", "courseContentFinder", "assignmentModal"} :
        \/ o = "settings" /\ shell.settingsOpen
        \/ o = "courseFinder" /\ screen.courseFinderOpen
        \/ o = "courseContentFinder" /\ screen.courseContentFinderOpen
        \/ o = "assignmentModal" /\ screen.assignmentModalOpen}

\* C37: in every settled state at most one of the settings modal, the course
\* finder, the content finder and the assignment modal is open, and the
\* content finder and the assignment modal are open only on the course page.
C37_AtMostOneOverlay ==
    /\ Cardinality(OpenOverlays) <= 1
    /\ (screen.courseContentFinderOpen \/ screen.assignmentModalOpen) =>
           screen.viewMode = "course"

\* The assignment modal is the one overlay open, on the course page, after
\* two other overlays were opened and closed.
C37_Witness ==
    /\ OpenOverlays = {"assignmentModal"}
    /\ screen.viewMode = "course"
    /\ Len(handles) = 3
    /\ lastKey = "return"

-----------------------------------------------------------------------------
(* Properties of the dashboard load (checked under LoadSpec)               *)

\* The step is the failure of fetchCourses in the i-th awaited call.
CoursesFailStep(i) ==
    /\ i \in DOMAIN loads
    /\ loads[i].stage = "courses"
    /\ loads' = RemoveAt(loads, i)
    /\ courseCache' = courseCache

\* The step is the end of the i-th awaited call.
LoadEndStep(i) ==
    /\ i \in DOMAIN loads
    /\ loads' = RemoveAt(loads, i)

\* C32: when fetchCourses fails in a load without forceRefresh and the cache
\* holds a non-empty course list, the dashboard has the cached courses, the
\* data source "cache" and a non-empty error text; when the cache holds no
\* list or an empty one, the course list is empty and the data source is
\* "none"; when fetchCourses fails in a forced refresh, the courses and the
\* data source stay as they were; and whenever a call ends, the loading flag
\* is false.
C32_CachedCourseFallback ==
    [][\A i \in DOMAIN loads :
          /\ (CoursesFailStep(i) /\ ~loads[i].forceRefresh) =>
                 IF courseCache.present /\ courseCache.courses # <<>>
                 THEN /\ board'.courses = courseCache.courses
                      /\ board'.dataSource = "cache"
                      /\ board'.error # NoErrorText
                 ELSE /\ board'.courses = <<>>
                      /\ board'.dataSource = "none"
          /\ (CoursesFailStep(i) /\ loads[i].forceRefresh) =>
                 /\ board'.courses = board.courses
                 /\ board'.dataSource = board.dataSource
          /\ LoadEndStep(i) => ~board'.loading]_vars

\* The mount load is awaiting fetchCourses with a non-empty list in the
\* cache, and its failure gives the cached courses with the source "cache".
C32_Witness ==
    /\ loads # <<>>
    /\ \E i \in DOMAIN loads :
           /\ ~loads[i].forceRefresh
           /\ loads[i].stage = "courses"
    /\ courseCache.present
    /\ courseCache.courses # <<>>
    /\ board.loading
    /\ LoadDashboardCoursesFailed(board, FALSE, courseCache, "Request timed out").dataSource
           = "cache"

\* A forced refresh is awaiting fetchCourses while live courses are shown.
C32_WitnessForced ==
    /\ \E i \in DOMAIN loads :
           /\ loads[i].forceRefresh
           /\ loads[i].stage = "courses"
    /\ board.dataSource = "live"
    /\ board.courses # <<>>

-----------------------------------------------------------------------------
(* Properties of a refresh of the shown course (checked under Spec)        *)

\* A fetch of the shown course has succeeded and its sections await the
\* render, in which they replace the ones stored for the course.
RefreshQueued ==
    /\ queuedUpdates # <<>>
    /\ viewMode = "course"
    /\ courseSectionsById[activeCourseId].present
    /\ \A i \in DOMAIN queuedUpdates :
           queuedUpdates[i].ok /\ queuedUpdates[i].courseId = activeCourseId

\* The step is that render.
RefreshRendered == Render /\ RefreshQueued

\* The ids of the rows.
IdsOf(rows) == {rows[i].id : i \in DOMAIN rows}

\* C33: the render of a successful refresh of the shown course flattens the
\* new sections with the collapsed ids as they were: the collapsed ids are
\* not modified, every row present before and after keeps its expanded flag,
\* and the selected index is the old one clamped into the new row range.
C33_RefreshPreservesCollapse ==
    [][RefreshRendered =>
           /\ collapsedCourseNodeIds' = collapsedCourseNodeIds
           /\ courseRows' = BuildCourseTreeRows(RenderedSections', CollapsedSet)
           /\ \A id \in IdsOf(allCourseRows) \cap IdsOf(allCourseRows') :
                  id \in CollapsedSet' <=> id \in CollapsedSet
           /\ \A i \in DOMAIN courseRows : \A j \in DOMAIN courseRows' :
                  courseRows[i].id = courseRows'[j].id =>
                      courseRows'[j].expanded = courseRows[i].expanded
           /\ courseSelectedIndex' =
                  Min(courseSelectedIndex, MaxCourseRowIndex(Len(courseRows')))]_vars

\* C33 (amended): as C33_RefreshPreservesCollapse for the collapsed ids and
\* the expanded flags.  The selected index is the old one clamped into the
\* new row range, unless a jump is pending and the new flatten holds its
\* target; then the selection moves to the target and the jump is resolved.
C33_RefreshPreservesCollapseUnlessJumpResolves ==
    [][RefreshRendered =>
           /\ collapsedCourseNodeIds' = collapsedCourseNodeIds
           /\ courseRows' = BuildCourseTreeRows(RenderedSections', CollapsedSet)
           /\ \A id \in IdsOf(allCourseRows) \cap IdsOf(allCourseRows') :
                  id \in CollapsedSet' <=> id \in CollapsedSet
           /\ \A i \in DOMAIN courseRows : \A j \in DOMAIN courseRows' :
                  courseRows[i].id = courseRows'[j].id =>
                      courseRows'[j].expanded = courseRows[i].expanded
           /\ NoJumpResolves =>
                  courseSelectedIndex' =
                      Min(courseSelectedIndex, MaxCourseRowIndex(Len(courseRows')))
           /\ ~NoJumpResolves =>
                  /\ SelectedRow'.id = pendingCourseJumpRowId
                  /\ pendingCourseJumpRowId' = NoRowId]_vars

\* A refresh of the shown course has succeeded and awaits its render; ids are
\* collapsed, the selection is beyond the rows the new sections give, and the
\* render keeps the collapsed ids and clamps the selection.
C33_Witness ==
    /\ RefreshQueued
    /\ collapsedCourseNodeIds # <<>>
    /\ queuedUpdates[1].sections # courseSectionsById[activeCourseId].sections
    /\ After(Base).collapsedCourseNodeIds = collapsedCourseNodeIds
    /\ After(Base).courseSelectedIndex < courseSelectedIndex
    /\ After(Base).courseSelectedIndex = MaxCourseRowIndex(Len(After(Base).courseRows))

-----------------------------------------------------------------------------
(* Properties of a committed jump (checked under Spec)                     *)

\* The content finder commits the row `target` in the step.
JumpStep(target) ==
    /\ viewMode = "course"
    /\ courseContentFinderOpen
    /\ ~courseContentFinderOpen'
    /\ lastJumpRowId' = target
    /\ target # NoRowId

\* The ancestors of the row that can be collapsed.
CollapsibleAncestorIds(rows, id) ==
    {a \in AncestorIds(rows, id) :
        \E i \in DOMAIN rows : rows[i].id = a /\ rows[i].collapsible}

\* C34: a committed jump removes from the collapsed set the ids of the
\* target's collapsible ancestors and nothing else: the target's own id and
\* every id that is no ancestor of the target keep their membership.  (Read
\* for steps that flatten the same sections as before.)
C34_JumpFrame ==
    [][\A target \in IdsOf(allCourseRows) :
           (JumpStep(target) /\ RenderedSections' = RenderedSections) =>
               /\ CollapsedSet' =
                      CollapsedSet \ CollapsibleAncestorIds(allCourseRows, target)
               /\ target \in CollapsedSet' <=> target \in CollapsedSet
               /\ \A id \in CollapsedSet \cup CollapsedSet' :
                      id \notin AncestorIds(allCourseRows, target) =>
                          (id \in CollapsedSet' <=> id \in CollapsedSet)]_vars

\* The content finder is open over a tree in which the activity module:10:55
\* is collapsed inside a collapsed section next to another collapsed id; the
\* jump to the activity expands the section and leaves the activity collapsed.
C34_Witness ==
    /\ viewMode = "course"
    /\ courseContentFinderOpen
    /\ queuedUpdates = <<>>
    /\ \E i \in DOMAIN allCourseRows :
           /\ allCourseRows[i].id \in CollapsedSet
           /\ CollapsibleAncestorIds(allCourseRows, allCourseRows[i].id) \cap CollapsedSet # {}
           /\ After(ApplyCourseContentSelection(State, Base, allCourseRows[i].id))
                  .collapsedCourseNodeIds
                  = SelectSeq(collapsedCourseNodeIds,
                              LAMBDA id : id \notin AncestorIds(allCourseRows,
                                                               allCourseRows[i].id))
           /\ allCourseRows[i].id \in
                  ToCollapsedSet(After(ApplyCourseContentSelection(State, Base,
                                           allCourseRows[i].id)).collapsedCourseNodeIds)

-----------------------------------------------------------------------------
(* Properties of the assignment modal's requests (checked under ModalSpec) *)

\* The i-th awaiting call was superseded: the modal was closed or opened
\* again after the call was made.
SupersededRequest(i) ==
    /\ i \in DOMAIN modalRequests
    /\ modalRequests[i].requestId # requestIdRef

\* The step is a completion of the i-th awaiting call's fetch.
CompletionStep(i) ==
    /\ i \in DOMAIN modalRequests
    /\ requestIdRef' = requestIdRef
    /\ \/ modalRequests' = RemoveAt(modalRequests, i)
       \/ /\ Len(modalRequests') = Len(modalRequests)
          /\ modalRequests'[Len(modalRequests')].requestId = modalRequests[i].requestId
          /\ modalRequests'[Len(modalRequests')].stage = "status"
          /\ modalRequests[i].stage = "list"

\* C35: the completion of a fetch that belongs to a superseded call changes
\* neither the modal's state nor the caches; and whenever the modal is
\* closed, its detail-loading and status-loading flags are false (in every
\* state, so that they stay false until the next open).
C35_StaleRequestsDiscarded ==
    /\ [](~modal.open => (~modal.detailLoading /\ ~modal.statusLoading))
    /\ [][\A i \in DOMAIN modalRequests :
              (CompletionStep(i) /\ SupersededRequest(i)) =>
                  /\ modal' = modal
                  /\ assignmentCaches' = assignmentCaches]_vars

\* The modal was closed and opened again: the call of the first open still
\* awaits its fetch next to the call of the second, and the modal shows the
\* second call's loading flag.
C35_Witness ==
    /\ modal.open
    /\ modal.detailLoading
    /\ Len(modalRequests) = 2
    /\ SupersededRequest(1)
    /\ ~SupersededRequest(2)
    /\ AssignmentsFetched(ModalState, 1, <<[id |-> 8, cmid |-> 90],
                                           [id |-> 7, cmid |-> 12]>>).modal = modal

\* The modal is closed while a call awaits the submission status.
C35_WitnessClosed ==
    /\ ~modal.open
    /\ \E i \in DOMAIN modalRequests : modalRequests[i].stage = "status"

-----------------------------------------------------------------------------
(* Properties of the course page's error text (checked under Spec)         *)

\* The courses whose failed fetches await the render.
FailedCourses == {queuedUpdates[i].courseId :
                     i \in {j \in DOMAIN queuedUpdates : ~queuedUpdates[j].ok}}

\* C36: a non-empty error text of the course page stems from a failed fetch
\* of the course that is shown: in every step that ends with an error text on
\* the course page, the failures the step renders are failures of fetches of
\* the course shown after the step, and when it renders none, the text is the
\* one that was there before, for the same course.  So no failure of a fetch
\* of another course puts its text in place of the shown course's content.
C36_ErrorOfActiveCourse ==
    [][(viewMode' = "course" /\ coursePageError' # NoError) =>
           IF FailedCourses # {}
           THEN FailedCourses = {activeCourseId'}
           ELSE /\ coursePageError # NoError
                /\ viewMode = "course"
                /\ activeCourseId' = activeCourseId]_vars

-----------------------------------------------------------------------------
(* Properties of the visible rows against the full tree (FlattenSpec)      *)

\* The ids of the rows in their order.
IdSequence(rows) == [i \in DOMAIN rows |-> rows[i].id]

\* s is t with some elements left out, in the order of t.
RECURSIVE IsSubsequenceInOrder(_, _)
IsSubsequenceInOrder(s, t) ==
    IF s = <<>> THEN TRUE
    ELSE IF t = <<>> THEN FALSE
    ELSE IF Head(s) = Head(t) THEN IsSubsequenceInOrder(Tail(s), Tail(t))
    ELSE IsSubsequenceInOrder(s, Tail(t))

\* C38: for the tree and the collapsed set at hand, the ids of the flattened
\* rows are a subsequence, in the same order, of the ids of the rows flattened
\* with nothing collapsed, and each row has a row of the same id in the full
\* flatten that agrees with it in every field but `expanded`.
C38_VisibleRowsAreAView ==
    /\ IsSubsequenceInOrder(IdSequence(fRows), IdSequence(fAllRows))
    /\ \A i \in DOMAIN fRows :
           \E j \in DOMAIN fAllRows :
               /\ fAllRows[j].id = fRows[i].id
               /\ [fAllRows[j] EXCEPT !.expanded = fRows[i].expanded] = fRows[i]
    /\ \A i \in DOMAIN fRows : \A j \in DOMAIN fAllRows :
           fAllRows[j].id = fRows[i].id =>
               [fAllRows[j] EXCEPT !.expanded = fRows[i].expanded] = fRows[i]

\* A tree of two sections, one collapsed and one expanded with a collapsed
\* activity in it: rows are left out in the middle and at the end of the
\* full sequence, and two rows differ from the full flatten in `expanded`.
C38_Witness ==
    /\ Len(fSections) = 2
    /\ Len(fRows) < Len(fAllRows)
    /\ Len(fRows) >= 3
    /\ Cardinality({i \in DOMAIN fRows : fRows[i].collapsible /\ ~fRows[i].expanded}) = 2
    /\ \E i \in DOMAIN fRows : fRows[i].kind = "module" /\ ~fRows[i].expanded
    /\ \E i \in DOMAIN fRows : fRows[i].kind = "section" /\ fRows[i].expanded

\* C39: the sections of the tree have pairwise distinct ids and the
\* activities of each section have distinct ids (every tree of FlattenSpec
\* has); then all row ids of the flatten, with the collapsed set at hand and
\* with nothing collapsed, are pairwise distinct, so that an id names at most
\* one row.
C39_RowIdsUnique ==
    (/\ \A i, j \in DOMAIN fSections : fSections[i].id = fSections[j].id => i = j
     /\ \A si \in DOMAIN fSections : \A i, j \in DOMAIN fSections[si].modules :
            fSections[si].modules[i].id = fSections[si].modules[j].id => i = j)
    => /\ \A i, j \in DOMAIN fRows : fRows[i].id = fRows[j].id => i = j
       /\ \A i, j \in DOMAIN fAllRows : fAllRows[i].id = fAllRows[j].id => i = j
       /\ \A id \in fCollapsed :
              Cardinality({i \in DOMAIN fAllRows : fAllRows[i].id = id}) <= 1

\* A tree with two sections that hold an activity of the same id each, one
\* with two content items, flattened with nothing collapsed.
C39_Witness ==
    /\ Len(fSections) = 2
    /\ \E i \in DOMAIN fSections[1].modules : \E j \in DOMAIN fSections[2].modules :
           fSections[1].modules[i].id = fSections[2].modules[j].id
    /\ Cardinality({i \in DOMAIN fRows : fRows[i].kind = "content-item"}) >= 2
    /\ fRows = fAllRows

-----------------------------------------------------------------------------
(* Collapse followed by expand (checked under Spec)                        *)

\* A collapse command reaches the dashboard with an expanded collapsible row
\* selected, and the render that follows flattens the sections shown now.
ExpandedRowSelected ==
    /\ InputReachesDashboard
    /\ viewMode = "course"
    /\ courseSelectedIndex < Len(courseRows)
    /\ SelectedRow.collapsible
    /\ SelectedRow.expanded
    /\ ActiveSections(Base) = RenderedSections

\* The settled state after the collapse command.
AfterCollapseCommand == After(CollapseSelectedRow(State, Base))

\* The settled state after an expand command given in the settled state s.
AfterExpandCommand(s) ==
    Settle(RenderDashboard(s, ExpandSelectedRow(s, s)),
           Len(s.courseRows), s.courseSelectedIndex)

\* The collapsed set, the rows and the selection of s are those of now.
SameTreeView(s) ==
    /\ ToCollapsedSet(s.collapsedCourseNodeIds) = CollapsedSet
    /\ s.courseRows = courseRows
    /\ s.courseSelectedIndex = courseSelectedIndex
    /\ \A i \in DOMAIN allCourseRows :
           allCourseRows[i].id \in ToCollapsedSet(s.collapsedCourseNodeIds)
               <=> allCourseRows[i].id \in CollapsedSet

\* C40: from a settled state with an expanded collapsible row selected, a
\* collapse command followed by an expand command gives the collapsed set
\* (as a set), the flattened rows and the selected index of before the two
\* commands, the collapsed rows among the descendants included.
C40_CollapseExpandRoundTrip ==
    ExpandedRowSelected => SameTreeView(AfterExpandCommand(AfterCollapseCommand))

\* An expanded section is selected that holds a collapsed activity; the
\* collapse command hides the rows under the section and leaves the
\* selection on it.
C40_Witness ==
    /\ ExpandedRowSelected
    /\ SelectedRow.kind = "section"
    /\ \E i \in DOMAIN courseRows :
           /\ courseRows[i].parentId = SelectedRow.id
           /\ courseRows[i].collapsible
           /\ ~courseRows[i].expanded
    /\ Len(AfterCollapseCommand.courseRows) < Len(courseRows)
    /\ SelectedRow.id \in ToCollapsedSet(AfterCollapseCommand.collapsedCourseNodeIds)
    /\ AfterCollapseCommand.courseSelectedIndex = courseSelectedIndex

====
